---- MODULE Spec2Model ----
(***************************************************************************)
(* A model of the subsystems of rmqtt's plugins:                           *)
(*   - the web-hook dispatcher (rmqtt-web-hook/src/lib.rs): the bounded    *)
(*     crossbeam channel, the worker thread with its tokio runtime, the    *)
(*     hook producer and the hot reconfiguration of load_config;           *)
(*   - the retrying RPC sender MessageSender::send                         *)
(*     (rmqtt-cluster-raft/src/lib.rs);                                    *)
(*   - the broadcast coordinator MessageBroadcaster::join_all and the      *)
(*     retained read ClusterRetainer::get built on it;                     *)
(*   - the retained stores of a cluster, written by ClusterRetainer::set   *)
(*     and read by a get on one of the nodes;                              *)
(*   - WebHookHandler::handle, the fan-out of one dequeued message;        *)
(*   - the hook functions of the web-hook and the counter plugin;          *)
(*   - the ClusterPlugin: start_raft, init, start, attrs and stop.         *)
(* Each subsystem has its own specification (SpecHook, SpecSender,         *)
(* SpecBcast, SpecRetain, SpecHandle, SpecChain, SpecRaft); the variables  *)
(* of the other subsystems stay at rest.                                   *)
(***************************************************************************)
EXTENDS Integers, Sequences, FiniteSets, TLC

(* ------------------------------ bounds -------------------------------- *)
MaxReloads == 1      \* load_config calls in one behaviour
MaxSubmit == 3       \* Body messages offered by hook in one behaviour
MaxCap == 2          \* largest async_queue_capacity tried
MaxThreads == 2      \* largest worker_threads tried
MaxBodys == 2        \* bodys built by one hook invocation
MaxRetries == 3      \* largest max_retries tried
MaxInterval == 2     \* largest retry_interval tried, in ticks
MaxMsgs == 2         \* distinct RPC messages tried
MaxPeers == 3        \* peer nodes configured besides this one
MaxCluster == 3      \* largest cluster whose retained stores are followed
MaxSets == 2         \* retained set calls in one behaviour
MaxRetain == 2       \* distinct retained payloads tried
MaxRules == 2        \* rules registered for one hook type
MaxUrls == 2         \* urls of one rule
MaxEvents == 2       \* events the counter's handler is called with
MaxRaftPeers == 3    \* entries of raft_peer_addrs
MaxCalls == 3        \* calls the plugin host makes on the ClusterPlugin
MaxStartNodes == 3   \* nodes of a cluster that run start_raft

(* =========================== web-hook ================================= *)

VARIABLES
    cfgs,         \* Arc<RwLock<PluginConfig>> objects: arc id -> contents
    plugin_cfg,   \* WebHookPlugin.cfg: the arc the plugin points to
    tx,           \* WebHookPlugin.tx: the channel the shared Sender feeds
    cap,          \* per channel: the capacity bounded() was given
    queue,        \* per channel: the messages in it, oldest first
    worker,       \* per channel: "none" | "running" | "exited" | "ended"
    wthreads,     \* per channel: worker_threads of its tokio runtime
    wcfg,         \* per channel: the arc its worker thread captured
    senderAlive,  \* per channel: a Sender of it still exists
    recvErr,      \* per channel: the worker logged a receive error
    processings,  \* the shared AtomicIsize
    task,         \* per Body id: the fan-out task spawned for it
    nsub,         \* Body messages offered so far
    hookLeft,     \* bodys the running hook invocation still has to offer
    lc,           \* the running load_config call
    lcResult,     \* what the last load_config returned
    reloads,      \* load_config calls made so far
    sub,          \* history: per Body id, where and when it was offered
    swaps,        \* history: the sender swaps, oldest first
    lastOffer,    \* history: the last try_send, queue before and after
    hookAcc,      \* the acc the last hook invocation was given
    hookRet       \* what the last hook invocation returned, if it has

hookVars == <<cfgs, plugin_cfg, tx, cap, queue, worker, wthreads, wcfg,
              senderAlive, recvErr, processings, task, nsub, hookLeft, lc,
              lcResult, reloads, sub, swaps, lastOffer, hookAcc, hookRet>>

\* MessageSender::send
VARIABLES
    max_retries,     \* MessageSender.max_retries
    retry_interval,  \* MessageSender.retry_interval, in ticks
    s_msg,           \* MessageSender.msg
    s_pc,            \* "attempt" | "sleep" | "returned"
    current_retry,   \* send's local counter
    attempts,        \* history: per send_message call, the message and outcome
    slept,           \* history: ticks spent in tokio::time::sleep
    sleepsDone,      \* history: sleeps completed
    s_result         \* what send returned

senderVars == <<max_retries, retry_interval, s_msg, s_pc, current_retry,
                attempts, slept, sleepsDone, s_result>>

\* MessageBroadcaster::join_all and ClusterRetainer::get
VARIABLES
    grpc_clients,     \* the peer map, as the sequence its iterator yields
    overflow_checks,  \* the build checks integer overflow (debug profile)
    local,            \* what the local store's get(topic_filter) answers
    peer_reply,       \* per node: what its send_message answers
    g_pc,             \* where ClusterRetainer::get is
    retains,          \* get's accumulator
    msg_taken,        \* join_all took self.msg
    max_idx,          \* join_all's local
    bi,               \* items join_all's enumerate() has yielded
    senders,          \* join_all's futures, in push order
    order,            \* history: push positions in completion order
    sendCount,        \* history: per node, send_message calls received
    replys,           \* what join_all returned
    g_result          \* what get returned

bcastVars == <<grpc_clients, overflow_checks, local, peer_reply, g_pc,
               retains, msg_taken, max_idx, bi, senders, order, sendCount,
               replys, g_result>>

\* The retained stores of the cluster and the get issued on one node
VARIABLES
    cluster,    \* the ids of the nodes configured in node_grpc_addrs
    store,      \* per node: its local retained store, topic -> retain
    setLog,     \* history: the set calls made, oldest first
    g_node,     \* the node on which get was called
    g_filter    \* get's topic_filter

retainVars == <<cluster, store, setLog, g_node, g_filter>>

\* WebHookHandler::handle on one dequeued message
VARIABLES
    h_rules,      \* cfg.rules.get(&typ): the rules of the type, if any
    h_http_urls,  \* cfg.http_urls
    h_typ,        \* handle's typ
    h_publish,    \* the topic of the publish hook's parameter carried, if any
    h_topic,      \* handle's topic: Option<Topic>
    h_body,       \* handle's body, a JSON object
    h_pc,         \* "start" | "await" | "returned"
    h_requests,   \* the http_request futures pushed, in push order
    h_selected,   \* history: the rules for which is_allowed was true
    h_result      \* what handle returned

handleVars == <<h_rules, h_http_urls, h_typ, h_publish, h_topic, h_body, h_pc,
                h_requests, h_selected, h_result>>

\* CounterHandler::hook
VARIABLES
    metrics,    \* Metrics: per counted event kind, the increments made
    c_events,   \* hook invocations so far
    c_acc,      \* the acc the last invocation was given
    c_ret       \* what the last invocation returned

counterVars == <<metrics, c_events, c_acc, c_ret>>

\* ClusterPlugin: start_raft, init, start, attrs, stop
VARIABLES
    raft_peer_addrs,   \* cfg.raft_peer_addrs, in configuration order
    raft_mailbox,      \* ClusterPlugin.raft_mailbox is Some
    router_mailbox,    \* router.set_raft_mailbox was called
    registered,        \* the hook types added to self.register, in order
    register_started,  \* self.register.start() was called
    slots,             \* the router, shared and retain slots are installed
    rafts,             \* per start_raft call: its probe, its thread, its call
    p_pc,              \* "idle" | "probing" | "polling" | "panicked"
    p_calls,           \* calls of the plugin host so far
    poll_log,          \* the status polls of the last start, oldest first
    p_ret              \* what the last finished call returned

raftVars == <<raft_peer_addrs, raft_mailbox, router_mailbox, registered,
              register_started, slots, rafts, p_pc, p_calls, poll_log, p_ret>>

\* start_raft on every node of one cluster
VARIABLES
    sr_nodes,        \* the node ids of raft_peer_addrs, the same on every node
    sr_pc,           \* per node: "down" | "probing" | "spawned" | "running" | "panicked"
    sr_leader_info,  \* per node: what its find_leader_info returned
    sr_call          \* per node: the call its cluster-raft thread made

startVars == <<sr_nodes, sr_pc, sr_leader_info, sr_call>>

vars == <<hookVars, senderVars, bcastVars, retainVars, handleVars, counterVars,
          raftVars, startVars>>

\* What the actions of one subsystem leave alone.
notHookVars == <<senderVars, bcastVars, retainVars, handleVars, counterVars, raftVars,
                  startVars>>
notSenderVars == <<hookVars, bcastVars, retainVars, handleVars, counterVars, raftVars,
                    startVars>>
notBcastVars == <<hookVars, senderVars, retainVars, handleVars, counterVars, raftVars,
                   startVars>>
notRetainVars == <<hookVars, senderVars, handleVars, counterVars, raftVars,
                    startVars>>
notHandleVars == <<hookVars, senderVars, bcastVars, retainVars, counterVars, raftVars,
                    startVars>>
notCounterVars == <<hookVars, senderVars, bcastVars, retainVars, handleVars,
                    raftVars, startVars>>
notRaftVars == <<hookVars, senderVars, bcastVars, retainVars, handleVars,
                 counterVars, startVars>>
notStartVars == <<hookVars, senderVars, bcastVars, retainVars, handleVars,
                  counterVars, raftVars>>

Chans == 0..MaxReloads          \* one channel per start() call
Arcs == 0..MaxReloads           \* one config arc per start() call
Ids == 1..MaxSubmit

NoCfg == [worker_threads |-> 0, async_queue_capacity |-> 0, ver |-> -1]

PluginConfigs(v) ==
    [worker_threads : 1..MaxThreads, async_queue_capacity : 1..MaxCap, ver : {v}]

Body(id) == [kind |-> "Body", id |-> id]
Exit == [kind |-> "Exit", id |-> 0]

NoTask == [st |-> "none", rt |-> -1, v1 |-> -1, v2 |-> -1, http |-> "none"]

\* acc: Option<HookResult>
NoAcc == [some |-> FALSE, v |-> 0]
SomeAcc(v) == [some |-> TRUE, v |-> v]
Accs == {NoAcc, SomeAcc(1)}

\* A hook invocation that has not returned.
NoReturn == [continue |-> FALSE, acc |-> NoAcc, set |-> FALSE]
NoSub == [ch |-> -1, epoch |-> -1, ok |-> FALSE, why |-> "none",
          reload |-> -1, lcr |-> "none"]
LcIdle == [pc |-> "idle", new_ch |-> -1, new_arc |-> -1,
           cfg_before |-> -1, content_before |-> NoCfg, tx_before |-> -1]
NoOffer == [ch |-> -1, id |-> 0, before |-> <<>>, after |-> <<>>, ok |-> FALSE]

\* The number of start() calls made so far: the channels and arcs in use.
Started == Cardinality({c \in Chans : worker[c] # "none"})

(* WebHookPlugin::new: the config is loaded, processings is 0 and start()  *)
(* creates channel 0 with its worker.                                      *)
HookInit(C) ==
    \E c \in C :
        /\ cfgs = [a \in Arcs |-> IF a = 0 THEN c ELSE NoCfg]
        /\ plugin_cfg = 0
        /\ tx = 0
        /\ cap = [ch \in Chans |-> IF ch = 0 THEN c.async_queue_capacity ELSE 0]
        /\ queue = [ch \in Chans |-> <<>>]
        /\ worker = [ch \in Chans |-> IF ch = 0 THEN "running" ELSE "none"]
        /\ wthreads = [ch \in Chans |-> IF ch = 0 THEN c.worker_threads ELSE 0]
        /\ wcfg = [ch \in Chans |-> IF ch = 0 THEN 0 ELSE -1]
        /\ senderAlive = [ch \in Chans |-> ch = 0]
        /\ recvErr = [ch \in Chans |-> FALSE]
        /\ processings = 0
        /\ task = [i \in Ids |-> NoTask]
        /\ nsub = 0
        /\ hookLeft = 0
        /\ lc = LcIdle
        /\ lcResult = "none"
        /\ reloads = 0
        /\ sub = [i \in Ids |-> NoSub]
        /\ swaps = <<>>
        /\ lastOffer = NoOffer
        /\ hookAcc = NoAcc
        /\ hookRet = NoReturn

(* ------------------------- the bounded channel ------------------------ *)

\* try_send as a send on an unbounded channel: Full is never answered.
TrySendResultUnbounded(ch) ==
    IF worker[ch] = "ended" THEN "Disconnected" ELSE "Ok"

\* try_send with the capacity test off by one.
TrySendResultOffByOne(ch) ==
    IF worker[ch] = "ended" THEN "Disconnected"
    ELSE IF Len(queue[ch]) > cap[ch] THEN "Full"
    ELSE "Ok"

(* crossbeam's Sender::try_send on a bounded channel: it never waits. A    *)
(* channel whose Receiver is gone refuses with Disconnected, a channel     *)
(* that holds cap messages refuses with Full. (Capacities range over       *)
(* 1..MaxCap: bounded(0), a rendezvous channel that holds no message at    *)
(* all, is not modelled.)                                                  *)
TrySendResult(ch) ==
    IF worker[ch] = "ended" THEN "Disconnected"
    ELSE IF Len(queue[ch]) >= cap[ch] THEN "Full"
    ELSE "Ok"

\* A handler that took a Sender of its own when init registered it.
HandlerSenderAtInit == IF swaps = <<>> THEN tx ELSE swaps[1].old

(* The channel a registered WebHookHandler offers to: every handler holds  *)
(* a clone of the plugin's Arc<RwLock<Sender>>, so it reads the Sender the *)
(* plugin currently holds.                                                 *)
HandlerSender == tx

(* ------------------------------- hook --------------------------------- *)

\* A handler that ends the chain and drops the accumulator.
HookReturnStop(acc) == [continue |-> FALSE, acc |-> NoAcc, set |-> TRUE]

\* hook's last expression: (true, acc).
HookReturn(acc) == [continue |-> TRUE, acc |-> acc, set |-> TRUE]

(* WebHookHandler::hook up to the send loop: the parameter is lowered to   *)
(* n bodys (one per topic filter for ClientSubscribe / ClientUnsubscribe,  *)
(* one for the other known parameters, none for a parameter hook does not  *)
(* know). Without bodys the loop is skipped and hook returns.              *)
HookEnter(n, acc) ==
    /\ hookLeft = 0
    /\ nsub + n <= MaxSubmit
    /\ hookLeft' = n
    /\ hookAcc' = acc
    /\ hookRet' = IF n = 0 THEN HookReturn(acc) ELSE NoReturn
    /\ UNCHANGED <<cfgs, plugin_cfg, tx, cap, queue, worker, wthreads, wcfg,
                   senderAlive, recvErr, processings, task, nsub, lc,
                   lcResult, reloads, sub, swaps, lastOffer>>
    /\ UNCHANGED notHookVars

(* One iteration of hook's send loop: self.tx.read().try_send(Body). An    *)
(* error is logged and the message is dropped; the loop goes on, and after *)
(* the last body hook returns.                                             *)
HookTrySend ==
    /\ hookLeft > 0
    /\ LET id == nsub + 1
           ch == HandlerSender
           r == TrySendResult(ch)
           q2 == IF r = "Ok" THEN Append(queue[ch], Body(id)) ELSE queue[ch]
       IN  /\ queue' = [queue EXCEPT ![ch] = q2]
           /\ sub' = [sub EXCEPT ![id] =
                        [ch |-> ch, epoch |-> Len(swaps), ok |-> (r = "Ok"),
                         why |-> r, reload |-> reloads,
                         lcr |-> IF lc.pc = "idle" THEN lcResult ELSE "running"]]
           /\ lastOffer' = [ch |-> ch, id |-> id, before |-> queue[ch],
                            after |-> q2, ok |-> (r = "Ok")]
           /\ nsub' = id
    /\ hookLeft' = hookLeft - 1
    /\ hookRet' = IF hookLeft = 1 THEN HookReturn(hookAcc) ELSE NoReturn
    /\ UNCHANGED <<cfgs, plugin_cfg, tx, cap, worker, wthreads, wcfg,
                   senderAlive, recvErr, processings, task, lc, lcResult,
                   reloads, swaps, hookAcc>>
    /\ UNCHANGED notHookVars

(* ------------------------------ worker -------------------------------- *)

(* One turn of the worker loop with a message to receive. A Body bumps     *)
(* processings and spawns its fan-out task on the worker's runtime; Exit   *)
(* breaks the loop.                                                        *)
WorkerRecv(ch) ==
    /\ worker[ch] = "running"
    /\ queue[ch] # <<>>
    /\ LET m == Head(queue[ch])
       IN  /\ queue' = [queue EXCEPT ![ch] = Tail(@)]
           /\ IF m.kind = "Body"
              THEN /\ processings' = processings + 1
                   /\ task' = [task EXCEPT ![m.id] =
                                 [st |-> "spawned", rt |-> ch, v1 |-> -1, v2 |-> -1,
                                  http |-> "none"]]
                   /\ worker' = worker
              ELSE /\ worker' = [worker EXCEPT ![ch] = "exited"]
                   /\ UNCHANGED <<processings, task>>
    /\ UNCHANGED <<cfgs, plugin_cfg, tx, cap, wthreads, wcfg, senderAlive,
                   recvErr, nsub, hookLeft, lc, lcResult, reloads, sub, swaps,
                   lastOffer>>
    /\ UNCHANGED <<hookAcc, hookRet>>
    /\ UNCHANGED notHookVars

(* One turn of the worker loop on an empty channel that has lost every     *)
(* Sender: recv returns Err, the error is logged and the loop goes on.     *)
WorkerRecvErr(ch) ==
    /\ worker[ch] = "running"
    /\ queue[ch] = <<>>
    /\ ~senderAlive[ch]
    /\ ~recvErr[ch]
    /\ recvErr' = [recvErr EXCEPT ![ch] = TRUE]
    /\ UNCHANGED <<cfgs, plugin_cfg, tx, cap, queue, worker, wthreads, wcfg,
                   senderAlive, processings, task, nsub, hookLeft, lc,
                   lcResult, reloads, sub, swaps, lastOffer>>
    /\ UNCHANGED <<hookAcc, hookRet>>
    /\ UNCHANGED notHookVars

(* What the teardown of a worker's runtime does to a task of it: block_on  *)
(* has returned, the thread closure ends and drops rt; tokio drops every   *)
(* task of the runtime that has not completed at its yield point.          *)
AfterRuntimeDrop(t, ch) ==
    IF t.rt = ch /\ t.st \in {"spawned", "awaiting"}
    THEN [t EXCEPT !.st = "cancelled"]
    ELSE t

(* The worker thread ends after the loop broke: the runtime and the        *)
(* Receiver are dropped. The drop waits for the polls in progress.         *)
WorkerThreadEnd(ch) ==
    /\ worker[ch] = "exited"
    /\ \A i \in Ids : ~(task[i].rt = ch /\ task[i].st = "read")
    /\ worker' = [worker EXCEPT ![ch] = "ended"]
    /\ task' = [i \in Ids |-> AfterRuntimeDrop(task[i], ch)]
    /\ UNCHANGED <<cfgs, plugin_cfg, tx, cap, queue, wthreads, wcfg,
                   senderAlive, recvErr, processings, nsub, hookLeft, lc,
                   lcResult, reloads, sub, swaps, lastOffer>>
    /\ UNCHANGED <<hookAcc, hookRet>>
    /\ UNCHANGED notHookVars

\* A runtime polls its tasks until it is dropped.
RuntimeAlive(ch) == worker[ch] \in {"running", "exited"}

\* A worker whose tasks see the config as it was before the last reload.
ConfigBeforeReload(ch) ==
    IF lc.cfg_before = wcfg[ch] THEN lc.content_before ELSE cfgs[wcfg[ch]]

(* cfg.read() in a task of the worker of channel ch: the present contents  *)
(* of the config arc the worker was started with.                          *)
LiveConfig(ch) == cfgs[wcfg[ch]]

(* WebHookHandler::handle, first lock: timeout and default urls are read.  *)
TaskRead(i) ==
    /\ task[i].st = "spawned"
    /\ RuntimeAlive(task[i].rt)
    /\ task' = [task EXCEPT ![i].st = "read",
                            ![i].v1 = LiveConfig(task[i].rt).ver]
    /\ UNCHANGED <<cfgs, plugin_cfg, tx, cap, queue, worker, wthreads, wcfg,
                   senderAlive, recvErr, processings, nsub, hookLeft, lc,
                   lcResult, reloads, sub, swaps, lastOffer>>
    /\ UNCHANGED <<hookAcc, hookRet>>
    /\ UNCHANGED notHookVars

(* WebHookHandler::handle, second lock: the rules are read and the         *)
(* requests built; the task then awaits join_all of them.                  *)
TaskRequests(i) ==
    /\ task[i].st = "read"
    /\ task' = [task EXCEPT ![i].st = "awaiting",
                            ![i].v2 = LiveConfig(task[i].rt).ver]
    /\ UNCHANGED <<cfgs, plugin_cfg, tx, cap, queue, worker, wthreads, wcfg,
                   senderAlive, recvErr, processings, nsub, hookLeft, lc,
                   lcResult, reloads, sub, swaps, lastOffer>>
    /\ UNCHANGED <<hookAcc, hookRet>>
    /\ UNCHANGED notHookVars

\* What http_request may see and log: a 2xx reply, another status, an error.
HttpOutcomes == {"2xx", "non2xx", "err"}

(* The requests of a task have all finished, the worst of them with        *)
(* outcome o, which http_request logged: handle returns Ok(()) and the     *)
(* task decrements processings.                                            *)
TaskDone(i, o) ==
    /\ task[i].st = "awaiting"
    /\ RuntimeAlive(task[i].rt)
    /\ task' = [task EXCEPT ![i].st = "done", ![i].http = o]
    /\ processings' = processings - 1
    /\ UNCHANGED <<cfgs, plugin_cfg, tx, cap, queue, worker, wthreads, wcfg,
                   senderAlive, recvErr, nsub, hookLeft, lc, lcResult,
                   reloads, sub, swaps, lastOffer>>
    /\ UNCHANGED <<hookAcc, hookRet>>
    /\ UNCHANGED notHookVars

(* ---------------------------- load_config ----------------------------- *)

\* load_config's test for a restart.
NeedsRestart(old, new) ==
    \/ old.worker_threads # new.worker_threads
    \/ old.async_queue_capacity # new.async_queue_capacity

(* load_config, the else branch: the same worker and channel go on, the    *)
(* contents of the config arc are replaced under its write lock.           *)
LoadConfigOnly(new) ==
    /\ lc.pc = "idle"
    /\ reloads < MaxReloads
    /\ ~NeedsRestart(cfgs[plugin_cfg], new)
    /\ cfgs' = [cfgs EXCEPT ![plugin_cfg] = new]
    /\ lc' = [LcIdle EXCEPT !.cfg_before = plugin_cfg,
                            !.content_before = cfgs[plugin_cfg],
                            !.tx_before = tx]
    /\ lcResult' = "ok"
    /\ reloads' = reloads + 1
    /\ UNCHANGED <<plugin_cfg, tx, cap, queue, worker, wthreads, wcfg,
                   senderAlive, recvErr, processings, task, nsub, hookLeft,
                   sub, swaps, lastOffer>>
    /\ UNCHANGED <<hookAcc, hookRet>>
    /\ UNCHANGED notHookVars

(* load_config, the restart branch up to the call of send_timeout: the new *)
(* config gets an arc of its own and Self::start creates a channel of the  *)
(* new capacity and a worker thread with the new worker_threads.           *)
LoadConfigStart(new) ==
    /\ lc.pc = "idle"
    /\ reloads < MaxReloads
    /\ NeedsRestart(cfgs[plugin_cfg], new)
    /\ LET n == Started
       IN  /\ cfgs' = [cfgs EXCEPT ![n] = new]
           /\ cap' = [cap EXCEPT ![n] = new.async_queue_capacity]
           /\ worker' = [worker EXCEPT ![n] = "running"]
           /\ wthreads' = [wthreads EXCEPT ![n] = new.worker_threads]
           /\ wcfg' = [wcfg EXCEPT ![n] = n]
           /\ senderAlive' = [senderAlive EXCEPT ![n] = TRUE]
           /\ lc' = [pc |-> "exit_pending", new_ch |-> n, new_arc |-> n,
                     cfg_before |-> plugin_cfg,
                     content_before |-> cfgs[plugin_cfg], tx_before |-> tx]
    /\ reloads' = reloads + 1
    /\ UNCHANGED <<plugin_cfg, tx, queue, recvErr, processings, task, nsub,
                   hookLeft, lcResult, sub, swaps, lastOffer>>
    /\ UNCHANGED <<hookAcc, hookRet>>
    /\ UNCHANGED notHookVars

(* send_timeout(Exit, 3 s) on the old channel finds room: Exit is queued.  *)
LoadConfigSendExit ==
    /\ lc.pc = "exit_pending"
    /\ worker[tx] # "ended"
    /\ Len(queue[tx]) < cap[tx]
    /\ queue' = [queue EXCEPT ![tx] = Append(@, Exit)]
    /\ lc' = [lc EXCEPT !.pc = "exit_sent"]
    /\ UNCHANGED <<cfgs, plugin_cfg, tx, cap, worker, wthreads, wcfg,
                   senderAlive, recvErr, processings, task, nsub, hookLeft,
                   lcResult, reloads, sub, swaps, lastOffer>>
    /\ UNCHANGED <<hookAcc, hookRet>>
    /\ UNCHANGED notHookVars

\* load_config assigning self.cfg and self.tx before it looks at the error.
AfterExitFailureSwapped == <<lc.new_arc, lc.new_ch>>

(* What load_config leaves in (self.cfg, self.tx) when send_timeout fails: *)
(* it returns the error before either assignment.                          *)
AfterExitFailure == <<plugin_cfg, tx>>

(* send_timeout(Exit, 3 s) fails: the old channel stayed full for 3 s (or  *)
(* its Receiver is gone). load_config logs and returns Err; new_tx, the    *)
(* only Sender of the new channel, is dropped with the call's locals.      *)
LoadConfigExitFails ==
    /\ lc.pc = "exit_pending"
    /\ worker[tx] = "ended" \/ Len(queue[tx]) >= cap[tx]
    /\ plugin_cfg' = AfterExitFailure[1]
    /\ tx' = AfterExitFailure[2]
    /\ senderAlive' = [senderAlive EXCEPT ![lc.new_ch] = FALSE]
    /\ lc' = [lc EXCEPT !.pc = "idle"]
    /\ lcResult' = "err"
    /\ UNCHANGED <<cfgs, cap, queue, worker, wthreads, wcfg, recvErr,
                   processings, task, nsub, hookLeft, reloads, sub, swaps,
                   lastOffer>>
    /\ UNCHANGED <<hookAcc, hookRet>>
    /\ UNCHANGED notHookVars

(* After Exit is queued: self.cfg = new_cfg; *self.tx.write() = new_tx.    *)
(* The old Sender is dropped by the assignment. load_config has the plugin *)
(* exclusively (&mut self), so the two assignments are one step to every   *)
(* observer; hooks see only the second.                                    *)
LoadConfigSwap ==
    /\ lc.pc = "exit_sent"
    /\ plugin_cfg' = lc.new_arc
    /\ tx' = lc.new_ch
    /\ senderAlive' = [senderAlive EXCEPT ![tx] = FALSE]
    /\ swaps' = Append(swaps, [old |-> tx, new |-> lc.new_ch,
                               cfg |-> cfgs[lc.new_arc]])
    /\ lc' = [lc EXCEPT !.pc = "idle"]
    /\ lcResult' = "ok"
    /\ UNCHANGED <<cfgs, cap, queue, worker, wthreads, wcfg, recvErr,
                   processings, task, nsub, hookLeft, reloads, sub, lastOffer>>
    /\ UNCHANGED <<hookAcc, hookRet>>
    /\ UNCHANGED notHookVars

HookNext ==
    \/ \E n \in 1..MaxBodys : HookEnter(n, NoAcc)
    \/ HookTrySend
    \/ \E ch \in Chans : WorkerRecv(ch)
    \/ \E ch \in Chans : WorkerRecvErr(ch)
    \/ \E ch \in Chans : WorkerThreadEnd(ch)
    \/ \E i \in Ids : TaskRead(i)
    \/ \E i \in Ids : TaskRequests(i)
    \/ \E i \in Ids : TaskDone(i, "2xx")
    \/ \E new \in PluginConfigs(reloads + 1) : LoadConfigOnly(new)
    \/ \E new \in PluginConfigs(reloads + 1) : LoadConfigStart(new)
    \/ LoadConfigSendExit
    \/ LoadConfigExitFails
    \/ LoadConfigSwap


(* ====================== MessageSender::send =========================== *)


NoResult == [ok |-> FALSE, attempt |-> 0]

(* A MessageSender as its callers build it, at the entry of send:          *)
(* current_retry = 0 and the loop is about to make its first attempt.      *)
SenderInit(R, I, M) ==
    /\ max_retries \in R
    /\ retry_interval \in I
    /\ s_msg \in M
    /\ s_pc = "attempt"
    /\ current_retry = 0
    /\ attempts = <<>>
    /\ slept = 0
    /\ sleepsDone = 0
    /\ s_result = NoResult

\* The retry test letting one attempt too many through.
MayRetryInclusive == current_retry <= max_retries

\* send's test after a failed attempt.
MayRetry == current_retry < max_retries

\* send keeping the error of its first attempt for the return.
ErrReturnedFirst == Len(attempts) - current_retry + 1

\* return Err(e): e is the error of the attempt that has just failed.
ErrReturned == Len(attempts) + 1

(* One turn of send's loop: send_message(msg_type, msg.clone()) is called  *)
(* and answers Ok (ok) or Err. The reply or error of attempt k is named k. *)
SendAttempt(ok) ==
    /\ s_pc = "attempt"
    /\ attempts' = Append(attempts, [msg |-> s_msg, ok |-> ok])
    /\ IF ok
       THEN /\ s_pc' = "returned"
            /\ s_result' = [ok |-> TRUE, attempt |-> Len(attempts) + 1]
            /\ UNCHANGED current_retry
       ELSE IF MayRetry
            THEN /\ current_retry' = current_retry + 1
                 /\ s_pc' = "sleep"
                 /\ UNCHANGED s_result
            ELSE /\ s_pc' = "returned"
                 /\ s_result' = [ok |-> FALSE, attempt |-> ErrReturned]
                 /\ UNCHANGED current_retry
    /\ UNCHANGED <<max_retries, retry_interval, s_msg, slept, sleepsDone>>
    /\ UNCHANGED notSenderVars

(* tokio::time::sleep(retry_interval) is over: the loop turns again.       *)
SendWake ==
    /\ s_pc = "sleep"
    /\ slept' = slept + retry_interval
    /\ sleepsDone' = sleepsDone + 1
    /\ s_pc' = "attempt"
    /\ UNCHANGED <<max_retries, retry_interval, s_msg, current_retry,
                   attempts, s_result>>
    /\ UNCHANGED notSenderVars

SenderNext ==
    \/ \E ok \in BOOLEAN : SendAttempt(ok)
    \/ SendWake

(* ========= MessageBroadcaster::join_all and ClusterRetainer::get ====== *)


Self == 1                          \* Runtime::instance().node.id()
Nodes == 1..(MaxPeers + 1)
\* The modulus of usize. TLC's integers are 32 bits wide, so the model wraps
\* at 2^30 where the 64-bit targets wrap at 2^64: in both, 0 - 1 is the largest
\* value of the type, above every index the loop can reach.
USize == 1073741824

\* A retained entry: the topic and the node whose store holds it.
Entry(t, n) == [topic |-> t, node |-> n]

ReplyErr(n) == [ok |-> FALSE, kind |-> "Err", v |-> <<>>, from |-> n]
ReplyOther(n) == [ok |-> TRUE, kind |-> "Other", v |-> <<>>, from |-> n]
ReplyGetRetains(n, v) == [ok |-> TRUE, kind |-> "GetRetains", v |-> v, from |-> n]

\* What a peer may answer: a transport error, GetRetains, another reply.
PeerReply(n, k) ==
    CASE k = "Err" -> ReplyErr(n)
      [] k = "Other" -> ReplyOther(n)
      [] k = "GetRetains" -> ReplyGetRetains(n, <<Entry(1, n), Entry(2, n)>>)

LocalResults ==
    {[ok |-> FALSE, v |-> <<>>], [ok |-> TRUE, v |-> <<>>],
     [ok |-> TRUE, v |-> <<Entry(1, Self)>>]}

\* The orders in which an iterator may yield the elements of S.
Orderings(S) ==
    {q \in [1..Cardinality(S) -> S] : \A i, j \in DOMAIN q : i # j => q[i] # q[j]}

NoGetResult == [ok |-> FALSE, v |-> <<>>, set |-> FALSE]

(* ClusterPlugin::new builds the peer map from node_grpc_addrs without     *)
(* this node's own id; ClusterRetainer::get is then entered.               *)
BcastInit(A, B, L) ==
    /\ \E addrs \in A : grpc_clients \in Orderings(addrs \ {Self})
    /\ overflow_checks \in B
    /\ local \in L
    /\ \E k \in [Nodes -> {"Err", "Other", "GetRetains"}] :
           /\ \A n \in Nodes :
                  (\A i \in DOMAIN grpc_clients : grpc_clients[i] # n) => k[n] = "Err"
           /\ peer_reply = [n \in Nodes |-> PeerReply(n, k[n])]
    /\ g_pc = "start"
    /\ retains = <<>>
    /\ msg_taken = FALSE
    /\ max_idx = 0
    /\ bi = 0
    /\ senders = <<>>
    /\ order = <<>>
    /\ sendCount = [n \in Nodes |-> 0]
    /\ replys = <<>>
    /\ g_result = NoGetResult

\* A get that goes on to the broadcast whatever the local store answered.
GetLocalIgnoringError ==
    /\ g_pc = "start"
    /\ retains' = local.v
    /\ g_pc' = "join_all"
    /\ UNCHANGED g_result
    /\ UNCHANGED <<grpc_clients, overflow_checks, local, peer_reply,
                   msg_taken, max_idx, bi, senders, order, sendCount, replys>>
    /\ UNCHANGED notBcastVars

(* get's first statement: self.inner.get(topic_filter).await?              *)
GetLocal ==
    /\ g_pc = "start"
    /\ IF local.ok
       THEN /\ retains' = local.v
            /\ g_pc' = "join_all"
            /\ UNCHANGED g_result
       ELSE /\ g_pc' = "returned"
            /\ g_result' = [ok |-> FALSE, v |-> <<>>, set |-> TRUE]
            /\ UNCHANGED retains
    /\ UNCHANGED <<grpc_clients, overflow_checks, local, peer_reply,
                   msg_taken, max_idx, bi, senders, order, sendCount, replys>>
    /\ UNCHANGED notBcastVars

\* max_idx one short: the loop breaks at the last peer but one.
MaxIdxShort(n) == (n - 2) % USize

\* self.grpc_clients.len() - 1 on usize, when it does not panic.
MaxIdx(n) == (n - 1) % USize

(* join_all up to its loop: the message is taken and max_idx computed. On  *)
(* an empty map the subtraction overflows: a build with overflow checks    *)
(* panics there, a build without wraps around.                             *)
JoinAllEnter ==
    /\ g_pc = "join_all"
    /\ msg_taken' = TRUE
    /\ IF Len(grpc_clients) = 0 /\ overflow_checks
       THEN /\ g_pc' = "panicked"
            /\ UNCHANGED max_idx
       ELSE /\ g_pc' = "loop"
            /\ max_idx' = MaxIdx(Len(grpc_clients))
    /\ UNCHANGED <<grpc_clients, overflow_checks, local, peer_reply, retains,
                   bi, senders, order, sendCount, replys, g_result>>
    /\ UNCHANGED notBcastVars

NoReply == [ok |-> FALSE, kind |-> "None", v |-> <<>>, from |-> 0]

NewFuture(n, moved) == [peer |-> n, st |-> "created", moved |-> moved, res |-> NoReply]

(* One turn of join_all's for loop, or its end when the iterator is        *)
(* exhausted. The future of position max_idx takes the message by move and *)
(* the loop breaks; the others take a clone.                               *)
JoinAllLoop ==
    /\ g_pc = "loop"
    /\ IF bi < Len(grpc_clients)
       THEN LET i == bi
                last == (i = max_idx)
            IN  /\ senders' = Append(senders, NewFuture(grpc_clients[i + 1], last))
                /\ bi' = bi + 1
                /\ g_pc' = IF last THEN "await" ELSE "loop"
       ELSE /\ g_pc' = "await"
            /\ UNCHANGED <<senders, bi>>
    /\ UNCHANGED <<grpc_clients, overflow_checks, local, peer_reply, retains,
                   msg_taken, max_idx, order, sendCount, replys, g_result>>
    /\ UNCHANGED notBcastVars

(* futures::future::join_all polls a future for the first time: its        *)
(* send_message call is made.                                              *)
FutSend(i) ==
    /\ g_pc = "await"
    /\ i \in DOMAIN senders
    /\ senders[i].st = "created"
    /\ senders' = [senders EXCEPT ![i].st = "sent"]
    /\ sendCount' = [sendCount EXCEPT ![senders[i].peer] = @ + 1]
    /\ UNCHANGED <<grpc_clients, overflow_checks, local, peer_reply, g_pc,
                   retains, msg_taken, max_idx, bi, order, replys, g_result>>
    /\ UNCHANGED notBcastVars

(* The send of a future completes with its peer's answer.                  *)
FutComplete(i) ==
    /\ g_pc = "await"
    /\ i \in DOMAIN senders
    /\ senders[i].st = "sent"
    /\ senders' = [senders EXCEPT ![i].st = "done",
                                  ![i].res = peer_reply[senders[i].peer]]
    /\ order' = Append(order, i)
    /\ UNCHANGED <<grpc_clients, overflow_checks, local, peer_reply, g_pc,
                   retains, msg_taken, max_idx, bi, sendCount, replys, g_result>>
    /\ UNCHANGED notBcastVars

\* The outputs collected as the futures complete (an unordered join).
JoinAllOutputByCompletion(futs, done) ==
    [i \in 1..Len(done) |-> futs[done[i]].res]

(* The output of futures::future::join_all: the outputs of the futures in  *)
(* the order the futures were given, whatever order they completed in.     *)
JoinAllOutput(futs, done) ==
    [i \in 1..Len(futs) |-> futs[i].res]

\* A join that gives up at the first failed future (try_join_all).
JoinAllReadyFailFast ==
    \/ \A i \in DOMAIN senders : senders[i].st = "done"
    \/ \E i \in DOMAIN senders : senders[i].st = "done" /\ ~senders[i].res.ok

\* join_all is ready once every future has completed.
JoinAllReady == \A i \in DOMAIN senders : senders[i].st = "done"

(* join_all returns to get.                                                *)
JoinAllReturn ==
    /\ g_pc = "await"
    /\ JoinAllReady
    /\ replys' = JoinAllOutput(senders, order)
    /\ g_pc' = "merge"
    /\ UNCHANGED <<grpc_clients, overflow_checks, local, peer_reply, retains,
                   msg_taken, max_idx, bi, senders, order, sendCount, g_result>>
    /\ UNCHANGED notBcastVars

\* A merge that propagates the first peer error instead of logging it.
RECURSIVE ExtendRetainsStrict(_, _)
ExtendRetainsStrict(acc, rs) ==
    IF rs = <<>> THEN [ok |-> TRUE, v |-> acc, set |-> TRUE]
    ELSE LET r == Head(rs)
         IN  IF ~r.ok THEN [ok |-> FALSE, v |-> <<>>, set |-> TRUE]
             ELSE ExtendRetainsStrict(IF r.kind = "GetRetains" THEN acc \o r.v ELSE acc,
                                      Tail(rs))

(* get's loop over the replies: an Ok(GetRetains(v)) extends the           *)
(* accumulator, another Ok reply is ignored, an Err is logged.             *)
RECURSIVE ExtendRetains(_, _)
ExtendRetains(acc, rs) ==
    IF rs = <<>> THEN [ok |-> TRUE, v |-> acc, set |-> TRUE]
    ELSE LET r == Head(rs)
         IN  ExtendRetains(IF r.ok /\ r.kind = "GetRetains" THEN acc \o r.v ELSE acc,
                           Tail(rs))

\* A get that returns the local matches alone, the replies unread.
GetMergeLocalOnly ==
    /\ g_pc = "merge"
    /\ g_result' = [ok |-> TRUE, v |-> retains, set |-> TRUE]
    /\ g_pc' = "returned"
    /\ UNCHANGED <<grpc_clients, overflow_checks, local, peer_reply, retains,
                   msg_taken, max_idx, bi, senders, order, sendCount, replys>>
    /\ UNCHANGED notBcastVars

(* get merges the replies and returns Ok(retains).                         *)
GetMerge ==
    /\ g_pc = "merge"
    /\ g_result' = ExtendRetains(retains, replys)
    /\ retains' = g_result'.v
    /\ g_pc' = "returned"
    /\ UNCHANGED <<grpc_clients, overflow_checks, local, peer_reply,
                   msg_taken, max_idx, bi, senders, order, sendCount, replys>>
    /\ UNCHANGED notBcastVars

BcastNext ==
    \/ GetLocal
    \/ JoinAllEnter
    \/ JoinAllLoop
    \/ \E i \in 1..MaxPeers + 1 : FutSend(i)
    \/ \E i \in 1..MaxPeers + 1 : FutComplete(i)
    \/ JoinAllReturn
    \/ GetMerge

(* ================= the retained stores of the cluster ================= *)

\* The concrete topics that are published to, and the filters queried.
Topics == << <<"a">>, <<"a", "b">> >>
TopicIds == DOMAIN Topics
TopicFilters == { <<"#">>, <<"a">>, <<"a", "+">> }

\* MQTT topic matching, level by level: "+" stands for exactly one level, "#"
\* for all the levels that remain, none included.
RECURSIVE Matches(_, _)
Matches(f, t) ==
    IF f = <<>> THEN t = <<>>
    ELSE IF Head(f) = "#" THEN TRUE
    ELSE IF t = <<>> THEN FALSE
    ELSE /\ Head(f) = "+" \/ Head(f) = Head(t)
         /\ Matches(Tail(f), Tail(t))

NoRetain == 0                      \* the store holds nothing for the topic
Retains == 1..MaxRetain

\* A retained pair as get returns it, tagged with the node whose store held it.
StoredEntry(t, r, n) == [topic |-> t, node |-> n, retain |-> r]

\* The local store's set: the value kept for a topic is the last one written.
StoreSet(s, t, r) == [s EXCEPT ![t] = r]

\* The local store's get: the pairs whose topic matches the filter.
StoreGet(s, f, n) ==
    LET hit(t) == s[t] # NoRetain /\ Matches(f, Topics[t])
        ids == SelectSeq([t \in TopicIds |-> t], hit)
    IN  [i \in 1..Len(ids) |-> StoredEntry(ids[i], s[ids[i]], n)]

(* A peer's answer to GetRetains(topic_filter): its handler queries its    *)
(* own store; an unreachable peer makes send_message fail.                 *)
PeerAnswer(n, f, k) ==
    CASE k = "Err" -> ReplyErr(n)
      [] k = "GetRetains" -> ReplyGetRetains(n, StoreGet(store[n], f, n))

(* The cluster is configured and every store is empty; no get is running.  *)
RetainInit(C) ==
    /\ cluster \in C
    /\ store = [n \in Nodes |-> [t \in TopicIds |-> NoRetain]]
    /\ setLog = <<>>
    /\ g_node = 0
    /\ g_filter = <<>>

\* The broadcast variables before any get has been called.
BcastIdle(B) ==
    /\ grpc_clients = <<>>
    /\ overflow_checks \in B
    /\ local = [ok |-> FALSE, v |-> <<>>]
    /\ peer_reply = [n \in Nodes |-> ReplyErr(n)]
    /\ g_pc = "idle"
    /\ retains = <<>>
    /\ msg_taken = FALSE
    /\ max_idx = 0
    /\ bi = 0
    /\ senders = <<>>
    /\ order = <<>>
    /\ sendCount = [n \in Nodes |-> 0]
    /\ replys = <<>>
    /\ g_result = NoGetResult

(* ClusterRetainer::set on node n: self.inner.set(topic, retain), the      *)
(* store of that node and no other.                                        *)
RetainSet(n, t, r) ==
    /\ g_pc = "idle"
    /\ n \in cluster
    /\ Len(setLog) < MaxSets
    /\ store' = [store EXCEPT ![n] = StoreSet(@, t, r)]
    /\ setLog' = Append(setLog, [node |-> n, topic |-> t, retain |-> r])
    /\ UNCHANGED <<cluster, g_node, g_filter>>
    /\ UNCHANGED bcastVars
    /\ UNCHANGED notRetainVars

(* ClusterRetainer::get is called on node q: its peer map is the cluster   *)
(* without q, its local store is q's, and each peer will answer from its   *)
(* own store or fail.                                                      *)
RetainGetIssue(q, f) ==
    /\ g_pc = "idle"
    /\ q \in cluster
    /\ g_node' = q
    /\ g_filter' = f
    /\ grpc_clients' \in Orderings(cluster \ {q})
    /\ local' = [ok |-> TRUE, v |-> StoreGet(store[q], f, q)]
    /\ \E k \in [Nodes -> {"Err", "GetRetains"}] :
           /\ \A n \in Nodes : n \notin cluster \ {q} => k[n] = "Err"
           /\ peer_reply' = [n \in Nodes |-> PeerAnswer(n, f, k[n])]
    /\ g_pc' = "start"
    /\ UNCHANGED <<overflow_checks, retains, msg_taken, max_idx, bi, senders,
                   order, sendCount, replys, g_result>>
    /\ UNCHANGED <<cluster, store, setLog>>
    /\ UNCHANGED notRetainVars

RetainNext ==
    \/ \E n \in Nodes, t \in TopicIds, r \in Retains : RetainSet(n, t, r)
    \/ \E q \in Nodes, f \in TopicFilters : RetainGetIssue(q, f)
    \/ GetLocal
    \/ JoinAllEnter
    \/ JoinAllLoop
    \/ \E i \in 1..MaxCluster : FutSend(i)
    \/ \E i \in 1..MaxCluster : FutComplete(i)
    \/ JoinAllReturn
    \/ GetMerge

(* ===================== WebHookHandler::handle ========================= *)

NoTopic == [some |-> FALSE, t |-> <<>>]
SomeTopic(t) == [some |-> TRUE, t |-> t]

\* The hook types tried.
HookTypes == {"client_connected", "message_publish", "message_dropped"}

\* The topic of the publish a parameter of the type carries, if it has one.
PublishTopics(typ) ==
    IF typ \in {"message_publish", "message_dropped"}
    THEN {SomeTopic(Topics[t]) : t \in TopicIds}
    ELSE {NoTopic}

(* The topic hook puts beside the body: Some(publish.topic()) for          *)
(* MessagePublish, None for MessageDropped and for the client events.      *)
HookTopic(typ, publish) ==
    IF typ = "message_publish" THEN publish ELSE NoTopic

\* The topics hook may attach to a body of the type.
HookTopics(typ) == {HookTopic(typ, publish) : publish \in PublishTopics(typ)}

\* Rule.topics: None, or the filters of the rule.
RuleTopics ==
    {[some |-> FALSE, filters |-> {}],
     [some |-> TRUE, filters |-> {<<"a">>}],
     [some |-> TRUE, filters |-> {<<"a", "+">>}]}

UrlLists == {SubSeq(<<"u1", "u2", "u3">>, 1, n) : n \in 0..MaxUrls}
DefaultUrlLists == {<<>>, <<"g1">>}

Rules == [action : {"a1", "a2"}, topics : RuleTopics, urls : UrlLists]

NoRules == [some |-> FALSE, rules |-> <<>>]
RuleLists ==
    {NoRules} \cup
    {[some |-> TRUE, rules |-> rs] :
        rs \in UNION {[1..n -> Rules] : n \in 0..MaxRules}}

\* The event bodies hook builds are JSON objects without an "action" member.
EventBody == [k \in {"clientid"} |-> "c1"]

\* rule_topics.is_matches(topic): one of the rule's filters matches.
IsMatches(rule_topics, topic) ==
    \E f \in rule_topics.filters : Matches(f, topic.t)

\* A check that lets a rule with a topics filter see no topic-less event.
IsAllowedTopicOnly(r, topic) ==
    IF topic.some
    THEN IF r.topics.some THEN IsMatches(r.topics, topic) ELSE TRUE
    ELSE ~r.topics.some

\* is_allowed of handle's filter_map.
IsAllowed(r, topic) ==
    IF topic.some
    THEN IF r.topics.some THEN IsMatches(r.topics, topic) ELSE TRUE
    ELSE TRUE

\* A selection that appends the global urls to the rule's own.
TargetUrlsBoth(r, default_urls) == r.urls \o default_urls

\* urls of handle's filter_map: the rule's own, the global ones if it has none.
TargetUrls(r, default_urls) ==
    IF r.urls = <<>> THEN default_urls ELSE r.urls

\* obj.insert("action", action) on a JSON object.
InsertAction(body, action) ==
    [k \in DOMAIN body \cup {"action"} |-> IF k = "action" THEN action ELSE body[k]]

HttpRequest(i, url, body) == [rule |-> i, url |-> url, body |-> body, st |-> "pending"]

\* A fan-out that posts to the first url of a rule only.
RuleRequestsFirstUrl(i, action, urls, body) ==
    <<HttpRequest(i, urls[1], InsertAction(body, action))>>

\* The requests pushed for one (action, urls) pair: one per url, each with
\* the rule's copy of the body.
RuleRequests(i, action, urls, body) ==
    LET new_body == InsertAction(body, action)
    IN  IF Len(urls) = 1
        THEN <<HttpRequest(i, urls[1], new_body)>>
        ELSE [j \in 1..Len(urls) |-> HttpRequest(i, urls[j], new_body)]

\* The requests of the rules from position i on, in rule order: a rule that
\* is not allowed, or has no url to post to, pushes none.
RECURSIVE HttpRequests(_, _, _, _, _)
HttpRequests(rules, i, topic, body, default_urls) ==
    IF i > Len(rules) THEN <<>>
    ELSE LET r == rules[i]
             urls == TargetUrls(r, default_urls)
             mine == IF IsAllowed(r, topic) /\ urls # <<>>
                     THEN RuleRequests(i, r.action, urls, body)
                     ELSE <<>>
         IN  mine \o HttpRequests(rules, i + 1, topic, body, default_urls)

(* The worker has dequeued Body(typ, topic, body) and spawned handle with  *)
(* the configuration cfg.                                                  *)
HandleInit(L, U, T) ==
    /\ h_rules \in L
    /\ h_http_urls \in U
    /\ h_typ \in T
    /\ h_publish \in PublishTopics(h_typ)
    /\ h_topic = HookTopic(h_typ, h_publish)
    /\ h_body = EventBody
    /\ h_pc = "start"
    /\ h_requests = <<>>
    /\ h_selected = {}
    /\ h_result = "none"

(* handle up to its join_all: the configuration is read, the rules of the  *)
(* type are filtered and the request futures are built. Without rules for  *)
(* the type there is nothing to join.                                      *)
HandleBuild ==
    /\ h_pc = "start"
    /\ IF h_rules.some
       THEN /\ h_selected' = {i \in DOMAIN h_rules.rules :
                                 IsAllowed(h_rules.rules[i], h_topic)}
            /\ h_requests' = HttpRequests(h_rules.rules, 1, h_topic, h_body, h_http_urls)
       ELSE UNCHANGED <<h_selected, h_requests>>
    /\ h_pc' = "await"
    /\ UNCHANGED <<h_rules, h_http_urls, h_typ, h_publish, h_topic, h_body,
                   h_result>>
    /\ UNCHANGED notHandleVars

(* One http_request future completes: a 2xx reply, another status (logged  *)
(* as a warning) or a transport error (logged as an error).                *)
HttpRequestDone(i, o) ==
    /\ h_pc = "await"
    /\ i \in DOMAIN h_requests
    /\ h_requests[i].st = "pending"
    /\ h_requests' = [h_requests EXCEPT ![i].st = o]
    /\ UNCHANGED <<h_rules, h_http_urls, h_typ, h_publish, h_topic, h_body,
                   h_pc, h_selected, h_result>>
    /\ UNCHANGED notHandleVars

(* join_all is through and handle returns Ok(()).                          *)
HandleReturn ==
    /\ h_pc = "await"
    /\ \A i \in DOMAIN h_requests : h_requests[i].st # "pending"
    /\ h_pc' = "returned"
    /\ h_result' = "Ok"
    /\ UNCHANGED <<h_rules, h_http_urls, h_typ, h_publish, h_topic, h_body,
                   h_requests, h_selected>>
    /\ UNCHANGED notHandleVars

HandleNext ==
    \/ HandleBuild
    \/ \E i \in 1..(MaxRules * MaxUrls), o \in HttpOutcomes : HttpRequestDone(i, o)
    \/ HandleReturn

(* ======================= CounterHandler::hook ========================= *)

\* The parameters tried: two the handler counts, one it does not know.
CounterParams ==
    {[kind |-> "client_connect", anonymous |-> TRUE],
     [kind |-> "client_connect", anonymous |-> FALSE],
     [kind |-> "message_publish", anonymous |-> FALSE],
     [kind |-> "unknown", anonymous |-> FALSE]}

Counters == {"client_connect", "client_auth_anonymous", "messages_publish"}

\* The increments the match arm of a parameter makes; the default arm only
\* logs.
CounterIncs(p) ==
    CASE p.kind = "client_connect" ->
             IF p.anonymous THEN {"client_connect", "client_auth_anonymous"}
             ELSE {"client_connect"}
      [] p.kind = "message_publish" -> {"messages_publish"}
      [] OTHER -> {}

\* hook's last expression: (true, acc).
CounterReturn(acc) == [continue |-> TRUE, acc |-> acc, set |-> TRUE]

CounterInit(E) ==
    /\ c_events \in E
    /\ metrics = [c \in Counters |-> 0]
    /\ c_acc = NoAcc
    /\ c_ret = NoReturn

(* CounterHandler::hook: the counters of the parameter are incremented and *)
(* (true, acc) is returned.                                                *)
CounterHook(p, acc) ==
    /\ c_events < MaxEvents
    /\ c_events' = c_events + 1
    /\ metrics' = [c \in Counters |->
                     IF c \in CounterIncs(p) THEN metrics[c] + 1 ELSE metrics[c]]
    /\ c_acc' = acc
    /\ c_ret' = CounterReturn(acc)
    /\ UNCHANGED notCounterVars

\* The hook handlers of the two plugins on one node, no reload going on.
ChainNext ==
    \/ \E n \in 0..MaxBodys, acc \in Accs : HookEnter(n, acc)
    \/ HookTrySend
    \/ \E ch \in Chans : WorkerRecv(ch)
    \/ \E i \in Ids : TaskRead(i)
    \/ \E i \in Ids : TaskRequests(i)
    \/ \E i \in Ids, o \in HttpOutcomes : TaskDone(i, o)
    \/ \E p \in CounterParams, acc \in Accs : CounterHook(p, acc)

(* ========================== ClusterPlugin ============================= *)

\* A raft_peer_addrs entry: a node id and the address of its Raft listener.
RaftAddrs == <<"r1", "r2", "r3", "r4">>
PeerAddr(i) == [id |-> i, addr |-> RaftAddrs[i]]

\* The configurations tried: every list of entries with distinct ids, this
\* node's own entry present or missing.
RaftConfigs ==
    UNION {{[i \in DOMAIN q |-> PeerAddr(q[i])] : q \in Orderings(S)} :
              S \in SUBSET (1..MaxRaftPeers)}

\* The loop bound of start: for i in 0..10.
MaxPolls == 10

\* What find_leader_info returns: an error, no leader, a leader's id and address.
ProbeErr == [ok |-> FALSE, some |-> FALSE, id |-> 0, addr |-> ""]
ProbeNone == [ok |-> TRUE, some |-> FALSE, id |-> 0, addr |-> ""]
ProbeSome(l) == [ok |-> TRUE, some |-> TRUE, id |-> l.id, addr |-> l.addr]

NoRaftCall == [op |-> "none", id |-> 0, leader_id |-> 0, leader_addr |-> ""]

NoPluginReturn == [call |-> "none", ok |-> FALSE, v |-> FALSE]

\* The hook types init registers a handler for, in order.
HookedTypes ==
    <<"ClientConnected", "ClientDisconnected", "SessionTerminated",
      "GrpcMessageReceived">>

\* A probe of every configured address, this node's own included.
PeerAddrsAll(peers, id) == [i \in DOMAIN peers |-> peers[i].addr]

\* peer_addrs of start_raft: the addresses of the entries of another id.
PeerAddrs(peers, id) ==
    LET other(e) == e.id # id
        others == SelectSeq(peers, other)
    IN  [i \in DOMAIN others |-> others[i].addr]

\* A start-up that bootstraps as leader whatever the probe found.
RaftRunLead(id, leader_info) ==
    [op |-> "lead", id |-> id, leader_id |-> 0, leader_addr |-> ""]

\* The runner's match on leader_info: join the leader found, or lead.
RaftRun(id, leader_info) ==
    IF leader_info.some
    THEN [op |-> "join", id |-> id, leader_id |-> leader_info.id,
          leader_addr |-> leader_info.addr]
    ELSE [op |-> "lead", id |-> id, leader_id |-> 0, leader_addr |-> ""]

\* A loop that polls once more than start's.
PollAgainOneMore(n, status) == status = "not_started" /\ n < MaxPolls + 1

\* After the n-th poll start polls again: the status was not started and
\* the loop has iterations left.
PollAgain(n, status) == status = "not_started" /\ n < MaxPolls

\* A stop that stops the hook registration.
AfterStopStopped == <<FALSE, slots, rafts>>

\* What stop leaves of the registration, the slots and the Raft threads.
AfterStop == <<register_started, slots, rafts>>

(* ClusterPlugin::new: the configuration is loaded and raft_mailbox is     *)
(* None; nothing is registered or installed.                               *)
RaftInit(C) ==
    /\ raft_peer_addrs \in C
    /\ raft_mailbox = FALSE
    /\ router_mailbox = FALSE
    /\ registered = <<>>
    /\ register_started = FALSE
    /\ slots = FALSE
    /\ rafts = <<>>
    /\ p_pc = "idle"
    /\ p_calls = 0
    /\ poll_log = <<>>
    /\ p_ret = NoPluginReturn

(* init calls start_raft, which runs up to the await of find_leader_info.  *)
(* It panics when the configuration has no entry of this node's id.        *)
InitEnter ==
    /\ p_pc = "idle"
    /\ p_calls < MaxCalls
    /\ p_calls' = p_calls + 1
    /\ IF \E i \in DOMAIN raft_peer_addrs : raft_peer_addrs[i].id = Self
       THEN /\ rafts' = Append(rafts,
                    [peer_addrs |-> PeerAddrs(raft_peer_addrs, Self),
                     probed |-> FALSE, leader_info |-> ProbeNone,
                     thread |-> "none", ncalls |-> 0, call |-> NoRaftCall])
            /\ p_pc' = "probing"
       ELSE /\ p_pc' = "panicked"
            /\ UNCHANGED rafts
    /\ UNCHANGED <<raft_peer_addrs, raft_mailbox, router_mailbox, registered,
                   register_started, slots, poll_log, p_ret>>
    /\ UNCHANGED notRaftVars

(* find_leader_info returns. An error panics in unwrap. Otherwise the      *)
(* cluster-raft thread is spawned, start_raft returns the mailbox and init *)
(* stores it, hands it to the router, registers its handlers and returns.  *)
InitProbeReturn(res) ==
    /\ p_pc = "probing"
    /\ LET k == Len(rafts)
       IN  IF res.ok
           THEN /\ rafts' = [rafts EXCEPT ![k].probed = TRUE,
                                          ![k].leader_info = res,
                                          ![k].thread = "spawned"]
                /\ raft_mailbox' = TRUE
                /\ router_mailbox' = TRUE
                /\ registered' = registered \o HookedTypes
                /\ p_ret' = [call |-> "init", ok |-> TRUE, v |-> TRUE]
                /\ p_pc' = "idle"
           ELSE /\ p_pc' = "panicked"
                /\ UNCHANGED <<rafts, raft_mailbox, router_mailbox, registered, p_ret>>
    /\ UNCHANGED <<raft_peer_addrs, register_started, slots, p_calls, poll_log>>
    /\ UNCHANGED notRaftVars

(* The cluster-raft thread of the k-th start_raft runs its runner, which   *)
(* spawns raft.join or raft.lead.                                          *)
RaftThreadRun(k) ==
    /\ k \in DOMAIN rafts
    /\ rafts[k].thread = "spawned"
    /\ rafts' = [rafts EXCEPT ![k].thread = "running",
                              ![k].ncalls = @ + 1,
                              ![k].call = RaftRun(Self, rafts[k].leader_info)]
    /\ UNCHANGED <<raft_peer_addrs, raft_mailbox, router_mailbox, registered,
                   register_started, slots, p_pc, p_calls, poll_log, p_ret>>
    /\ UNCHANGED notRaftVars

(* start up to its loop: raft_mailbox() panics on an unset mailbox;        *)
(* otherwise the three slots are installed and the registration started.   *)
StartEnter ==
    /\ p_pc = "idle"
    /\ p_calls < MaxCalls
    /\ p_calls' = p_calls + 1
    /\ IF raft_mailbox
       THEN /\ slots' = TRUE
            /\ register_started' = TRUE
            /\ poll_log' = <<>>
            /\ p_pc' = "polling"
       ELSE /\ p_pc' = "panicked"
            /\ UNCHANGED <<slots, register_started, poll_log>>
    /\ UNCHANGED <<raft_peer_addrs, raft_mailbox, router_mailbox, registered,
                   rafts, p_ret>>
    /\ UNCHANGED notRaftVars

(* One iteration of start's loop: status() is awaited; an error returns    *)
(* from start through the ? operator, a started status breaks the loop, a  *)
(* status not started sleeps 500 ms. After the loop start returns Ok(()).  *)
StartPoll(status) ==
    /\ p_pc = "polling"
    /\ poll_log' = Append(poll_log, status)
    /\ IF status = "err"
       THEN /\ p_ret' = [call |-> "start", ok |-> FALSE, v |-> FALSE]
            /\ p_pc' = "idle"
       ELSE IF PollAgain(Len(poll_log) + 1, status)
       THEN UNCHANGED <<p_ret, p_pc>>
       ELSE /\ p_ret' = [call |-> "start", ok |-> TRUE, v |-> TRUE]
            /\ p_pc' = "idle"
    /\ UNCHANGED <<raft_peer_addrs, raft_mailbox, router_mailbox, registered,
                   register_started, slots, rafts, p_calls>>
    /\ UNCHANGED notRaftVars

(* attrs: raft_mailbox() panics on an unset mailbox; otherwise status()    *)
(* is awaited, an error of it becomes None through ok(), the statistics    *)
(* of the peer clients are read and the json value is returned.            *)
PluginAttrs(status) ==
    /\ p_pc = "idle"
    /\ p_calls < MaxCalls
    /\ p_calls' = p_calls + 1
    /\ IF raft_mailbox
       THEN /\ p_ret' = [call |-> "attrs", ok |-> TRUE, v |-> status # "err"]
            /\ UNCHANGED p_pc
       ELSE /\ p_pc' = "panicked"
            /\ UNCHANGED p_ret
    /\ UNCHANGED <<raft_peer_addrs, raft_mailbox, router_mailbox, registered,
                   register_started, slots, rafts, poll_log>>
    /\ UNCHANGED notRaftVars

(* stop: a warning is logged and Ok(false) returned.                       *)
PluginStop ==
    /\ p_pc = "idle"
    /\ p_calls < MaxCalls
    /\ p_calls' = p_calls + 1
    /\ p_ret' = [call |-> "stop", ok |-> TRUE, v |-> FALSE]
    /\ register_started' = AfterStop[1]
    /\ slots' = AfterStop[2]
    /\ rafts' = AfterStop[3]
    /\ UNCHANGED <<raft_peer_addrs, raft_mailbox, router_mailbox, registered,
                   p_pc, poll_log>>
    /\ UNCHANGED notRaftVars

RaftNext ==
    \/ InitEnter
    \/ \E res \in {ProbeErr, ProbeNone} \cup
                   {ProbeSome(PeerAddr(l)) : l \in (1..MaxRaftPeers) \ {Self}} :
           InitProbeReturn(res)
    \/ \E k \in 1..MaxCalls : RaftThreadRun(k)
    \/ StartEnter
    \/ \E status \in {"started", "not_started", "err"} : StartPoll(status)
    \/ \E status \in {"started", "not_started", "err"} : PluginAttrs(status)
    \/ PluginStop

(* ================== start_raft across one cluster ===================== *)

StartNodes == 1..MaxStartNodes

(* Every node of the cluster is constructed and none has called            *)
(* start_raft; raft_peer_addrs lists the same nodes on each of them.       *)
StartRaftInit(N) ==
    /\ sr_nodes \in N
    /\ sr_pc = [n \in StartNodes |-> "down"]
    /\ sr_leader_info = [n \in StartNodes |-> ProbeNone]
    /\ sr_call = [n \in StartNodes |-> NoRaftCall]

\* The leader a node whose Raft runs reports to a probe.
ReportedLeader(p) ==
    IF sr_call[p].op = "lead" THEN p ELSE sr_call[p].leader_id

(* find_leader_info(peer_addrs) on node n: Some of a leader reported by a  *)
(* peer whose Raft runs, None when no peer reports one. peer_addrs holds   *)
(* the entries of another id than n's.                                     *)
FindLeaderInfo(n) ==
    LET peers == sr_nodes \ {n}
        reports == {ReportedLeader(p) : p \in {q \in peers : sr_pc[q] = "running"}}
    IN  IF reports = {}
        THEN {ProbeNone}
        ELSE {ProbeSome(PeerAddr(l)) : l \in reports}

(* Node n calls start_raft, which runs up to the await of                  *)
(* find_leader_info: its own entry is found and the Raft is constructed.   *)
StartRaftEnter(n) ==
    /\ n \in sr_nodes
    /\ sr_pc[n] = "down"
    /\ sr_pc' = [sr_pc EXCEPT ![n] = "probing"]
    /\ UNCHANGED <<sr_nodes, sr_leader_info, sr_call>>
    /\ UNCHANGED notStartVars

(* find_leader_info returns on node n. An error panics in unwrap;          *)
(* otherwise the cluster-raft thread is spawned with leader_info moved     *)
(* into it.                                                                *)
StartRaftProbeReturn(n, res) ==
    /\ sr_pc[n] = "probing"
    /\ res \in FindLeaderInfo(n) \cup {ProbeErr}
    /\ IF res.ok
       THEN /\ sr_leader_info' = [sr_leader_info EXCEPT ![n] = res]
            /\ sr_pc' = [sr_pc EXCEPT ![n] = "spawned"]
       ELSE /\ sr_pc' = [sr_pc EXCEPT ![n] = "panicked"]
            /\ UNCHANGED sr_leader_info
    /\ UNCHANGED <<sr_nodes, sr_call>>
    /\ UNCHANGED notStartVars

(* The cluster-raft thread of node n runs its runner, which spawns         *)
(* raft.join or raft.lead.                                                 *)
StartRaftThreadRun(n) ==
    /\ sr_pc[n] = "spawned"
    /\ sr_call' = [sr_call EXCEPT ![n] = RaftRun(n, sr_leader_info[n])]
    /\ sr_pc' = [sr_pc EXCEPT ![n] = "running"]
    /\ UNCHANGED <<sr_nodes, sr_leader_info>>
    /\ UNCHANGED notStartVars

StartRaftNext ==
    \/ \E n \in StartNodes : StartRaftEnter(n)
    \/ \E n \in StartNodes :
           \E res \in {ProbeErr, ProbeNone} \cup
                       {ProbeSome(PeerAddr(l)) : l \in StartNodes} :
               StartRaftProbeReturn(n, res)
    \/ \E n \in StartNodes : StartRaftThreadRun(n)

(* ========================= specifications ============================= *)

\* Each specification starts one subsystem on every input within the bounds
\* and holds the others at rest on one input.
RestConfigs == {[worker_threads |-> 1, async_queue_capacity |-> 1, ver |-> 0]}

InitHook ==
    /\ HookInit(PluginConfigs(0))
    /\ SenderInit({0}, {1}, {1})
    /\ BcastInit({{}}, {FALSE}, {[ok |-> FALSE, v |-> <<>>]})
    /\ RetainInit({{Self}})
    /\ HandleInit({NoRules}, {<<>>}, {"client_connected"})
    /\ CounterInit({0})
    /\ RaftInit({<<>>})
    /\ StartRaftInit({{}})

InitSender ==
    /\ SenderInit(0..MaxRetries, 1..MaxInterval, 1..MaxMsgs)
    /\ HookInit(RestConfigs)
    /\ BcastInit({{}}, {FALSE}, {[ok |-> FALSE, v |-> <<>>]})
    /\ RetainInit({{Self}})
    /\ HandleInit({NoRules}, {<<>>}, {"client_connected"})
    /\ CounterInit({0})
    /\ RaftInit({<<>>})
    /\ StartRaftInit({{}})

InitBcast ==
    /\ BcastInit(SUBSET Nodes, BOOLEAN, LocalResults)
    /\ HookInit(RestConfigs)
    /\ SenderInit({0}, {1}, {1})
    /\ RetainInit({{Self}})
    /\ HandleInit({NoRules}, {<<>>}, {"client_connected"})
    /\ CounterInit({0})
    /\ RaftInit({<<>>})
    /\ StartRaftInit({{}})

InitRetain ==
    /\ RetainInit({1..n : n \in 1..MaxCluster})
    /\ BcastIdle(BOOLEAN)
    /\ HookInit(RestConfigs)
    /\ SenderInit({0}, {1}, {1})
    /\ HandleInit({NoRules}, {<<>>}, {"client_connected"})
    /\ CounterInit({0})
    /\ RaftInit({<<>>})
    /\ StartRaftInit({{}})

InitHandle ==
    /\ HandleInit(RuleLists, DefaultUrlLists, HookTypes)
    /\ HookInit(RestConfigs)
    /\ SenderInit({0}, {1}, {1})
    /\ BcastInit({{}}, {FALSE}, {[ok |-> FALSE, v |-> <<>>]})
    /\ RetainInit({{Self}})
    /\ CounterInit({0})
    /\ RaftInit({<<>>})
    /\ StartRaftInit({{}})

InitChain ==
    /\ HookInit(PluginConfigs(0))
    /\ CounterInit({0})
    /\ RaftInit({<<>>})
    /\ StartRaftInit({{}})
    /\ SenderInit({0}, {1}, {1})
    /\ BcastInit({{}}, {FALSE}, {[ok |-> FALSE, v |-> <<>>]})
    /\ RetainInit({{Self}})
    /\ HandleInit({NoRules}, {<<>>}, {"client_connected"})

InitRaft ==
    /\ RaftInit(RaftConfigs)
    /\ StartRaftInit({{}})
    /\ HookInit(RestConfigs)
    /\ SenderInit({0}, {1}, {1})
    /\ BcastInit({{}}, {FALSE}, {[ok |-> FALSE, v |-> <<>>]})
    /\ RetainInit({{Self}})
    /\ HandleInit({NoRules}, {<<>>}, {"client_connected"})
    /\ CounterInit({0})

InitStart ==
    /\ StartRaftInit((SUBSET StartNodes) \ {{}})
    /\ HookInit(RestConfigs)
    /\ SenderInit({0}, {1}, {1})
    /\ BcastInit({{}}, {FALSE}, {[ok |-> FALSE, v |-> <<>>]})
    /\ RetainInit({{Self}})
    /\ HandleInit({NoRules}, {<<>>}, {"client_connected"})
    /\ CounterInit({0})
    /\ RaftInit({<<>>})

SpecHook == InitHook /\ [][HookNext]_vars

SpecSender == InitSender /\ [][SenderNext]_vars

SpecBcast == InitBcast /\ [][BcastNext]_vars

SpecRetain == InitRetain /\ [][RetainNext]_vars

SpecHandle == InitHandle /\ [][HandleNext]_vars

SpecChain == InitChain /\ [][ChainNext]_vars

SpecRaft == InitRaft /\ [][RaftNext]_vars

SpecStart == InitStart /\ [][StartRaftNext]_vars

(* ============================== claims ================================ *)

(* --------------------------- web-hook --------------------------------- *)

\* The Body ids offered to channel ch so far, and the rank of one among them.
OffersTo(ch) == {i \in 1..nsub : sub[i].ch = ch}
Rank(ch, i) == Cardinality({j \in OffersTo(ch) : j <= i})

\* The worker of ch has dequeued nothing and ch holds no Exit.
Stalled(ch) ==
    /\ worker[ch] = "running"
    /\ \A i \in Ids : task[i].rt # ch
    /\ \A k \in 1..Len(queue[ch]) : queue[ch][k].kind = "Body"

(* C1: in every reachable state every web-hook channel holds at most the   *)
(* async_queue_capacity of the config it was created for (and the channel  *)
(* the plugin's sender feeds at most that of the plugin's config); hook    *)
(* never waits for room: its try_send step can always be taken, and on a   *)
(* full channel it fails, drops the message and leaves the queue as it was.*)
C1_QueueBoundedHookNeverWaits ==
    /\ \A ch \in Chans :
           /\ Len(queue[ch]) <= cap[ch]
           /\ worker[ch] # "none" => cap[ch] = cfgs[wcfg[ch]].async_queue_capacity
    /\ Len(queue[tx]) <= cfgs[plugin_cfg].async_queue_capacity
    /\ hookLeft > 0 => ENABLED HookTrySend
    /\ (lastOffer.id # 0 /\ Len(lastOffer.before) >= cap[lastOffer.ch])
           => (~lastOffer.ok /\ lastOffer.after = lastOffer.before)

\* A Body was dropped on a full channel and the hook invocation has returned.
C1_Witness ==
    /\ lastOffer.id # 0
    /\ Len(lastOffer.before) = cap[lastOffer.ch]
    /\ ~lastOffer.ok
    /\ sub[lastOffer.id].why = "Full"
    /\ hookLeft = 0

(* C2: on a channel of capacity c that started empty and whose worker has  *)
(* dequeued nothing, of the Body messages offered so far exactly the first *)
(* c in submission order were accepted and are the queue, in that order;   *)
(* every later one was dropped, and a drop left the queue as it was.       *)
C2_ExactDropCount ==
    /\ \A ch \in Chans : Stalled(ch) =>
           /\ \A i \in OffersTo(ch) : sub[i].ok <=> (Rank(ch, i) <= cap[ch])
           /\ Len(queue[ch]) =
                  (IF Cardinality(OffersTo(ch)) <= cap[ch]
                   THEN Cardinality(OffersTo(ch)) ELSE cap[ch])
           /\ \A k \in 1..Len(queue[ch]) :
                  /\ queue[ch][k].id \in OffersTo(ch)
                  /\ Rank(ch, queue[ch][k].id) = k
    /\ (lastOffer.id # 0 /\ ~lastOffer.ok) => lastOffer.after = lastOffer.before

\* c + k messages were offered to a stalled channel of capacity c >= 2, k >= 1.
C2_Witness ==
    \E ch \in Chans :
        /\ Stalled(ch)
        /\ cap[ch] >= 2
        /\ Cardinality(OffersTo(ch)) > cap[ch]
        /\ lastOffer.ch = ch /\ ~lastOffer.ok

(* C3: a Body offered after the k-th sender swap (and before the next) is  *)
(* offered to the channel that swap installed, never to the one it         *)
(* replaced; that channel and its worker have the capacity and the         *)
(* worker_threads of the reloaded config; the Body is in no other queue    *)
(* and, once received, was received by that channel's worker.              *)
C3_NewWorkRoutedToNewWorker ==
    \A i \in 1..nsub : sub[i].epoch >= 1 =>
        LET sw == swaps[sub[i].epoch]
        IN  /\ sub[i].ch = sw.new
            /\ sub[i].ch # sw.old
            /\ cap[sw.new] = sw.cfg.async_queue_capacity
            /\ wthreads[sw.new] = sw.cfg.worker_threads
            /\ \/ cap[sw.new] # cap[sw.old]
               \/ wthreads[sw.new] # wthreads[sw.old]
            /\ \A ch \in Chans \ {sw.new} :
                   \A k \in 1..Len(queue[ch]) : queue[ch][k] # Body(i)
            /\ task[i].st # "none" => task[i].rt = sw.new

\* A Body offered after a swap was accepted and received by the new worker.
C3_Witness ==
    \E i \in 1..nsub :
        /\ sub[i].epoch >= 1
        /\ sub[i].ok
        /\ task[i].st # "none"

(* C4: no fan-out task is ever cancelled: the exit of the worker that      *)
(* spawned it and the teardown of that worker's executor leave every       *)
(* unfinished task running.                                                *)
C4_OldTasksNeverCancelled ==
    \A i \in Ids : task[i].st # "cancelled"

(* C5: when the last load_config returned an error (its Exit could not be  *)
(* placed on the old channel), the plugin's config arc, the contents of    *)
(* that arc and the sender are what they were before the call, and every   *)
(* Body offered since went to the old channel.                             *)
C5_FailedRestartDoesNotSwap ==
    (lc.pc = "idle" /\ lcResult = "err") =>
        /\ plugin_cfg = lc.cfg_before
        /\ cfgs[plugin_cfg] = lc.content_before
        /\ tx = lc.tx_before
        /\ \A i \in 1..nsub :
               (sub[i].reload = reloads /\ sub[i].lcr = "err")
                   => sub[i].ch = lc.tx_before

\* A restart failed on a full channel and a Body was offered afterwards.
C5_Witness ==
    /\ lc.pc = "idle" /\ lcResult = "err"
    /\ NeedsRestart(lc.content_before, cfgs[lc.new_arc])
    /\ \E i \in 1..nsub : sub[i].reload = reloads /\ sub[i].lcr = "err"

(* ----------------------- MessageSender::send -------------------------- *)

(* C6: send makes at most 1 + max_retries calls of send_message and none   *)
(* after a successful one; when it has returned, it made exactly           *)
(* 1 + max_retries calls if every one failed, exactly one if the first     *)
(* succeeded, and in general the last call is the only one that may have   *)
(* succeeded and decides the result.                                       *)
C6_RetryAttemptCount ==
    LET n == Len(attempts)
    IN  /\ n <= 1 + max_retries
        /\ \A k \in 1..n : attempts[k].ok => (k = n /\ s_pc = "returned")
        /\ s_pc = "returned" =>
               /\ n >= 1
               /\ s_result.ok = attempts[n].ok
               /\ (\A k \in 1..n : ~attempts[k].ok) => n = 1 + max_retries
               /\ attempts[1].ok => n = 1
               /\ attempts[n].ok \/ n = 1 + max_retries

\* send returned after every attempt failed, with at least two retries.
C6_Witness ==
    /\ s_pc = "returned"
    /\ max_retries >= 2
    /\ Len(attempts) = 1 + max_retries
    /\ \A k \in 1..Len(attempts) : ~attempts[k].ok

(* ------------- MessageBroadcaster::join_all, ClusterRetainer::get ----- *)

\* join_all has returned its list to get.
JoinAllReturned == g_pc = "merge" \/ (g_pc = "returned" /\ local.ok)

\* The position of node n in the peer map's iteration order (0: not a peer).
PeerIndex(n) ==
    IF \E i \in DOMAIN grpc_clients : grpc_clients[i] = n
    THEN CHOOSE i \in DOMAIN grpc_clients : grpc_clients[i] = n
    ELSE 0

(* C7: over a map of peers p_0..p_{n-1} join_all does not panic, and the   *)
(* list it returns has exactly one entry per peer of the map, its i-th     *)
(* entry being the answer of the i-th peer in iteration order, in whatever *)
(* order the sends completed.                                              *)
C7_BroadcastResultAlignment ==
    /\ Len(grpc_clients) >= 1 => g_pc # "panicked"
    /\ JoinAllReturned =>
           /\ Len(replys) = Len(grpc_clients)
           /\ \A i \in 1..Len(replys) :
                  /\ replys[i].from = grpc_clients[i]
                  /\ replys[i] = peer_reply[grpc_clients[i]]

\* A broadcast over MaxPeers peers returned, the first peer not first to answer.
C7_Witness ==
    /\ JoinAllReturned
    /\ Len(grpc_clients) >= 3
    /\ order[1] # 1
    /\ order[Len(order)] # Len(order)

(* C8: no peer is ever sent the message twice and no node outside the map  *)
(* is sent it; when join_all has returned, every peer of the map has been  *)
(* sent it exactly once.                                                   *)
C8_OneSendPerPeer ==
    /\ \A n \in Nodes : sendCount[n] <= (IF PeerIndex(n) # 0 THEN 1 ELSE 0)
    /\ JoinAllReturned => \A i \in DOMAIN grpc_clients : sendCount[grpc_clients[i]] = 1

\* A broadcast over at least two peers returned.
C8_Witness ==
    /\ JoinAllReturned
    /\ Len(grpc_clients) >= 2
    /\ \A i \in DOMAIN grpc_clients : sendCount[grpc_clients[i]] = 1

(* C9: whichever peers fail, when join_all returns every send has been     *)
(* made and has completed, the entry at the position of a peer that        *)
(* answered Ok is that peer's reply and the entry at the position of a     *)
(* peer that failed is an Err.                                             *)
C9_BroadcastFailureIsolation ==
    JoinAllReturned =>
        \A i \in DOMAIN grpc_clients :
            LET p == grpc_clients[i]
            IN  /\ i \in DOMAIN senders /\ senders[i].st = "done"
                /\ i \in DOMAIN replys
                /\ peer_reply[p].ok => (replys[i].ok /\ replys[i] = peer_reply[p])
                /\ ~peer_reply[p].ok => (~replys[i].ok /\ replys[i].kind = "Err")

\* A broadcast returned in which a peer failed first and another answered Ok.
C9_Witness ==
    /\ JoinAllReturned
    /\ Len(order) >= 2
    /\ ~peer_reply[grpc_clients[order[1]]].ok
    /\ \E i \in DOMAIN grpc_clients : peer_reply[grpc_clients[i]].ok

\* The entries the peers from position i on answer with GetRetains, in order.
RECURSIVE PeerRetains(_)
PeerRetains(i) ==
    IF i > Len(grpc_clients) THEN <<>>
    ELSE LET r == peer_reply[grpc_clients[i]]
         IN  (IF r.ok /\ r.kind = "GetRetains" THEN r.v ELSE <<>>) \o PeerRetains(i + 1)

(* C10: when the local store answered Ok and get has returned, it returned *)
(* Ok with the local matches followed by the entries of every peer that    *)
(* answered Ok(GetRetains(v)), in peer order; a peer that failed or        *)
(* answered something else adds nothing and the result is still Ok.        *)
C10_PartialFailureTolerantRead ==
    (g_pc = "returned" /\ local.ok) =>
        /\ g_result.set /\ g_result.ok
        /\ g_result.v = local.v \o PeerRetains(1)

\* get returned Ok although a peer failed, with another peer's entries in it.
C10_Witness ==
    /\ g_pc = "returned" /\ local.ok /\ g_result.ok
    /\ \E i \in DOMAIN grpc_clients : ~peer_reply[grpc_clients[i]].ok
    /\ \E i \in DOMAIN grpc_clients :
           /\ peer_reply[grpc_clients[i]].kind = "GetRetains"
           /\ \E k \in DOMAIN g_result.v : g_result.v[k].node = grpc_clients[i]

(* ---- claims on the retained stores ---- *)

\* The retained pair the i-th set call wrote.
SetEntry(i) == StoredEntry(setLog[i].topic, setLog[i].retain, setLog[i].node)

InResult(e) == \E i \in DOMAIN g_result.v : g_result.v[i] = e

\* No topic was set twice.
DistinctTopics ==
    \A i, j \in DOMAIN setLog : i # j => setLog[i].topic # setLog[j].topic

\* Every peer of the querying node answers GetRetains.
AllReachable ==
    \A i \in DOMAIN grpc_clients : peer_reply[grpc_clients[i]].kind = "GetRetains"

(* C11: in a cluster whose nodes are all reachable, after retained         *)
(* messages with pairwise distinct topics were set on arbitrary nodes, a   *)
(* get(f) called on any node that has peers does not panic, and once it    *)
(* has returned its result is Ok and holds every pair that was set and     *)
(* whose topic matches f, whichever node the pair was set on.              *)
C11_ClusterWideRetainedUnion ==
    (g_node # 0 /\ DistinctTopics /\ AllReachable) =>
        /\ Len(grpc_clients) >= 1 => g_pc # "panicked"
        /\ g_pc = "returned" =>
               /\ g_result.ok
               /\ \A i \in DOMAIN setLog :
                      Matches(g_filter, Topics[setLog[i].topic]) => InResult(SetEntry(i))

\* A get on one node has returned two pairs that were set on two other nodes.
C11_Witness ==
    /\ g_pc = "returned"
    /\ DistinctTopics
    /\ AllReachable
    /\ Len(setLog) = 2
    /\ {setLog[1].node, setLog[2].node, g_node} = 1..3
    /\ InResult(SetEntry(1))
    /\ InResult(SetEntry(2))

(* C12: after any sequence of set calls on any nodes, each topic is held   *)
(* by at most one node's store, the node of the last set for that topic,   *)
(* and a get that returned holds no two pairs for one topic.               *)
C12_RetainedSingleOwner ==
    /\ \A t \in TopicIds : \A n \in Nodes :
           store[n][t] # NoRetain =>
               \E i \in DOMAIN setLog :
                   /\ setLog[i].topic = t
                   /\ setLog[i].node = n
                   /\ \A j \in DOMAIN setLog : setLog[j].topic = t => j <= i
    /\ g_pc = "returned" =>
           \A i, j \in DOMAIN g_result.v :
               g_result.v[i].topic = g_result.v[j].topic => i = j

\* The value of the last set(t, _) made on node n, NoRetain when there is none.
LastSetOn(n, t) ==
    LET on == {i \in DOMAIN setLog : setLog[i].node = n /\ setLog[i].topic = t}
    IN  IF on = {} THEN NoRetain
        ELSE setLog[CHOOSE i \in on : \A j \in on : j <= i].retain

(* C13: once a get(f) called on a node has run to its end, it has returned *)
(* Ok with, for every topic t that f matches and that was set on that      *)
(* node, the pair of t and the value of the last set for t, whatever the   *)
(* number of peers, none included.                                         *)
C13_LastWriteReadBack ==
    g_pc \in {"returned", "panicked"} =>
        \A t \in TopicIds :
            (LastSetOn(g_node, t) # NoRetain /\ Matches(g_filter, Topics[t])) =>
                /\ g_pc = "returned"
                /\ g_result.ok
                /\ InResult(StoredEntry(t, LastSetOn(g_node, t), g_node))

(* ---- claims on WebHookHandler::handle ---- *)

RuleOf(i) == h_rules.rules[i]

\* The requests pushed for rule i, in push order, and their urls.
RequestsOf(i) ==
    LET mine(q) == q.rule = i
    IN  SelectSeq(h_requests, mine)

UrlsOf(i) == [j \in 1..Len(RequestsOf(i)) |-> RequestsOf(i)[j].url]

(* C14: once handle has filtered the rules of the dequeued message's type, *)
(* a rule of that type is selected exactly when the message carries no     *)
(* topic, or the rule has no topics filter, or one of its filters matches  *)
(* the topic; requests are pushed for selected rules only; and when the    *)
(* type has no rules, no rule is selected and no request is pushed.        *)
C14_RuleMatching ==
    h_pc # "start" =>
        /\ h_rules.some =>
               \A i \in DOMAIN h_rules.rules :
                   i \in h_selected <=>
                       \/ ~h_topic.some
                       \/ ~RuleOf(i).topics.some
                       \/ \E f \in RuleOf(i).topics.filters : Matches(f, h_topic.t)
        /\ \A j \in DOMAIN h_requests : h_requests[j].rule \in h_selected
        /\ (~h_rules.some \/ h_rules.rules = <<>>) =>
               h_selected = {} /\ h_requests = <<>>

\* Of two rules with a topics filter, the message's topic selected one only.
C14_Witness ==
    /\ h_pc = "returned"
    /\ h_topic.some
    /\ h_rules.some
    /\ Len(h_rules.rules) = 2
    /\ RuleOf(1).topics.some
    /\ RuleOf(2).topics.some
    /\ h_selected = {2}
    /\ h_requests # <<>>

(* C15: the urls a selected rule posts to are its own urls when it has     *)
(* any, and the global http_urls when it has none; a rule with no own urls *)
(* under an empty global list posts nothing, and a rule with own urls      *)
(* never posts to the global list.                                         *)
C15_UrlSelection ==
    h_pc # "start" =>
        \A i \in h_selected :
            /\ RuleOf(i).urls # <<>> => UrlsOf(i) = RuleOf(i).urls
            /\ RuleOf(i).urls = <<>> => UrlsOf(i) = h_http_urls

\* One selected rule posted to its own url, another to the global one.
C15_Witness ==
    /\ h_pc = "returned"
    /\ h_selected = {1, 2}
    /\ h_http_urls # <<>>
    /\ RuleOf(1).urls # <<>>
    /\ RuleOf(2).urls = <<>>
    /\ UrlsOf(1) = RuleOf(1).urls
    /\ UrlsOf(2) = h_http_urls

\* The urls rule i is to post to.
TargetsOf(i) == IF RuleOf(i).urls = <<>> THEN h_http_urls ELSE RuleOf(i).urls

(* C16: each selected rule with target urls U has exactly |U| requests,    *)
(* the j-th to the j-th url of U, and each of them carries the event body  *)
(* with the member "action" set to that rule's action and every other      *)
(* member as in the event body, whatever the other rules' actions are.     *)
C16_FanOut ==
    h_pc # "start" =>
        \A i \in h_selected :
            /\ Len(RequestsOf(i)) = Len(TargetsOf(i))
            /\ \A j \in DOMAIN RequestsOf(i) :
                   LET q == RequestsOf(i)[j]
                   IN  /\ q.url = TargetsOf(i)[j]
                       /\ DOMAIN q.body = DOMAIN h_body \cup {"action"}
                       /\ q.body["action"] = RuleOf(i).action
                       /\ \A k \in DOMAIN h_body : q.body[k] = h_body[k]

\* Two selected rules with different actions fanned out, one to two urls;
\* a request failed and handle returned.
C16_Witness ==
    /\ h_pc = "returned"
    /\ h_selected = {1, 2}
    /\ RuleOf(1).action # RuleOf(2).action
    /\ Len(RequestsOf(1)) = 2
    /\ Len(RequestsOf(2)) = 1
    /\ \E j \in DOMAIN h_requests : h_requests[j].st = "err"

(* ---- claims on the hook handlers ---- *)

(* C17: whatever happened to the bodys of an event (accepted, refused by a *)
(* full queue, posted with a transport error or a non-2xx reply) and also  *)
(* for a parameter the handler does not know, WebHookHandler::hook and     *)
(* CounterHandler::hook return continue = true together with the           *)
(* accumulator they were given.                                            *)
C17_HandlersNeverAlterChain ==
    /\ hookRet.set => hookRet.continue /\ hookRet.acc = hookAcc
    /\ c_ret.set => c_ret.continue /\ c_ret.acc = c_acc

\* hook was given Some(acc) and returned after a try_send refused by a full
\* queue; an earlier body was posted with a transport error; the counter's
\* handler returned on a parameter it does not know.
C17_Witness ==
    /\ hookRet.set
    /\ hookAcc.some
    /\ hookLeft = 0
    /\ \E i \in Ids : sub[i].why = "Full" /\ i = nsub
    /\ \E i \in Ids : task[i].http = "err"
    /\ c_ret.set
    /\ c_acc.some
    /\ \A c \in Counters : metrics[c] = 0

(* ---- claims on the ClusterPlugin ---- *)

\* The configured entries of another id than this node's.
OtherEntries ==
    {i \in DOMAIN raft_peer_addrs : raft_peer_addrs[i].id # Self}

(* C18: every start_raft calls find_leader_info with exactly the addresses *)
(* of the configured entries other than this node's, in configuration      *)
(* order; it invokes join or lead only after the probe has returned, at    *)
(* most once in all and exactly once when its thread has run: join(id,     *)
(* Some(leader_id), leader_addr) exactly when the probe returned a leader, *)
(* lead(id) exactly when it returned none.                                 *)
C18_RaftStartupMode ==
    \A k \in DOMAIN rafts :
        LET r == rafts[k]
        IN  /\ Len(r.peer_addrs) = Cardinality(OtherEntries)
            /\ \A i \in OtherEntries :
                   r.peer_addrs[Cardinality({j \in OtherEntries : j <= i})]
                       = raft_peer_addrs[i].addr
            /\ r.ncalls <= 1
            /\ r.ncalls = 1 <=> r.thread = "running"
            /\ r.ncalls = 1 =>
                   /\ r.probed
                   /\ r.call.id = Self
                   /\ r.call.op = "join" <=> r.leader_info.some
                   /\ r.call.op = "lead" <=> ~r.leader_info.some
                   /\ r.call.op = "join" =>
                          /\ r.call.leader_id = r.leader_info.id
                          /\ r.call.leader_addr = r.leader_info.addr
            /\ r.ncalls = 0 => r.call = NoRaftCall

\* With this node's entry between two others, a start_raft probed the two
\* others and joined the leader found.
C18_Witness ==
    /\ Len(raft_peer_addrs) = 3
    /\ raft_peer_addrs[2].id = Self
    /\ Len(rafts) = 1
    /\ Len(rafts[1].peer_addrs) = 2
    /\ rafts[1].leader_info.some
    /\ rafts[1].call.op = "join"

\* start has returned and its polls are in poll_log.
StartReturned == p_pc = "idle" /\ p_ret.call = "start"

(* C19, as stated: whatever the polls answered, an error included, start   *)
(* terminates with success.                                                *)
C19_StartAlwaysSucceeds ==
    StartReturned => p_ret.ok

(* C19, amended: start polls status() at most 10 times and polls no more   *)
(* after a poll that reported started or returned an error; when it        *)
(* returns it returns success exactly when no poll returned an error,      *)
(* which is after a poll that reported started or after 10 polls that did  *)
(* not; a poll that returns an error makes start return an error.          *)
C19_BoundedStartupProbe ==
    /\ Len(poll_log) <= MaxPolls
    /\ \A i \in DOMAIN poll_log : i < Len(poll_log) => poll_log[i] = "not_started"
    /\ StartReturned =>
           /\ poll_log # <<>>
           /\ p_ret.ok <=> poll_log[Len(poll_log)] # "err"
           /\ p_ret.ok =>
                  \/ poll_log[Len(poll_log)] = "started"
                  \/ Len(poll_log) = MaxPolls
    /\ (p_pc = "polling" /\ poll_log # <<>>) =>
           poll_log[Len(poll_log)] = "not_started"

\* start returned an error at its last allowed poll.
C19_Witness ==
    /\ StartReturned
    /\ Len(poll_log) = MaxPolls
    /\ poll_log[MaxPolls] = "err"
    /\ ~p_ret.ok

(* C20: in every state stop returns Ok(false) and leaves the plugin as it  *)
(* was: the registration as started as before, the slots as installed as   *)
(* before, every Raft thread as before, and the mailbox, the registered    *)
(* handlers and the configuration unchanged.                               *)
C20_StopChangesNothing ==
    [][PluginStop =>
          /\ p_ret' = [call |-> "stop", ok |-> TRUE, v |-> FALSE]
          /\ UNCHANGED <<register_started, slots, rafts, raft_mailbox,
                         router_mailbox, registered, raft_peer_addrs>>]_vars

\* stop has returned on a started plugin whose Raft thread runs.
C20_Witness ==
    /\ p_pc = "idle"
    /\ poll_log # <<>>
    /\ p_ret.call = "stop"
    /\ ~p_ret.v
    /\ register_started
    /\ slots
    /\ Len(rafts) = 1
    /\ rafts[1].thread = "running"

(* ---------------------------------------------------------------------- *)
(* C21  active_tasks accounting: in every reachable state, across worker  *)
(* restarts, processings (reported as active_tasks) equals the number of  *)
(* Body messages that were dequeued and whose fan-out task is still in    *)
(* progress; it is never negative and is 0 when no fan-out is in          *)
(* progress.                                                              *)
(* ---------------------------------------------------------------------- *)
FanOutsInProgress ==
    {i \in Ids : task[i].st \in {"spawned", "read", "awaiting"}}

C21_ActiveTasksAccounting ==
    /\ processings = Cardinality(FanOutsInProgress)
    /\ processings >= 0
    /\ (FanOutsInProgress = {} => processings = 0)

(* ---------------------------------------------------------------------- *)
(* C22  Retry result and pacing: send returns the reply of the first      *)
(* successful attempt, and on persistent failure the error of the last,   *)
(* (1 + max_retries)-th, attempt; it sleeps retry_interval only between   *)
(* two consecutive attempts: an outcome reached at attempt j is preceded  *)
(* by exactly j - 1 sleeps and no sleep follows the final attempt.        *)
(* ---------------------------------------------------------------------- *)
C22_RetryResultAndPacing ==
    LET n == Len(attempts)
    IN  /\ slept = sleepsDone * retry_interval
        /\ s_pc = "attempt" => sleepsDone = n
        /\ s_pc = "sleep" => sleepsDone = n - 1 /\ ~attempts[n].ok
        /\ s_pc = "returned" =>
               /\ s_result.attempt = n
               /\ s_result.ok = attempts[n].ok
               /\ \A k \in 1..(n - 1) : ~attempts[k].ok
               /\ ~s_result.ok => n = 1 + max_retries
               /\ sleepsDone = n - 1

\* send returned the reply of its third attempt after two sleeps.
C22_Witness ==
    /\ s_pc = "returned"
    /\ s_result = [ok |-> TRUE, attempt |-> 3]
    /\ sleepsDone = 2
    /\ retry_interval = 2

(* ---------------------------------------------------------------------- *)
(* C23  Config-only reload: a load_config that finds worker_threads and   *)
(* async_queue_capacity unchanged creates and stops no worker, keeps the  *)
(* same sender and leaves every queued message in place; every handle    *)
(* the running worker begins after the swap reads the new timeout and    *)
(* urls and then the new rules, also for a Body enqueued before the      *)
(* reload.                                                                *)
(* ---------------------------------------------------------------------- *)
\* The last load_config took the config-only branch and has returned.
ConfigOnlyReloaded ==
    /\ lc.pc = "idle"
    /\ lcResult = "ok"
    /\ lc.new_ch = -1
    /\ lc.cfg_before = plugin_cfg

C23_ConfigOnlyReload ==
    [][/\ \A a \in Arcs :
             ( /\ reloads' = reloads + 1
               /\ cfgs'[a].ver = reloads'
               /\ cfgs'[a].worker_threads = cfgs[plugin_cfg].worker_threads
               /\ cfgs'[a].async_queue_capacity
                      = cfgs[plugin_cfg].async_queue_capacity )
             => /\ a = plugin_cfg
                /\ UNCHANGED <<worker, wthreads, wcfg, cap, senderAlive, tx,
                               plugin_cfg, queue, processings, task>>
                /\ lc'.pc = "idle"
                /\ lcResult' = "ok"
       /\ \A i \in Ids :
             ( /\ ConfigOnlyReloaded
               /\ task[i].rt = tx
               /\ task[i].st = "spawned"
               /\ task'[i].st = "read" )
             => task'[i].v1 = cfgs[plugin_cfg].ver
       /\ \A i \in Ids :
             ( /\ ConfigOnlyReloaded
               /\ task[i].rt = tx
               /\ task[i].st = "read"
               /\ task[i].v1 = cfgs[plugin_cfg].ver
               /\ task'[i].st = "awaiting" )
             => task'[i].v2 = cfgs[plugin_cfg].ver]_vars

(* A Body accepted before a config-only reload is handled by the same     *)
(* worker after the reload returned: its handle read the new config at    *)
(* both locks.                                                            *)
C23_Witness ==
    /\ ConfigOnlyReloaded
    /\ worker = [ch \in Chans |-> IF ch = 0 THEN "running" ELSE "none"]
    /\ \E i \in Ids :
          /\ sub[i].ok
          /\ sub[i].reload = 0
          /\ task[i].rt = tx
          /\ task[i].st = "awaiting"
          /\ task[i].v1 = reloads
          /\ task[i].v2 = reloads
          /\ cfgs[plugin_cfg].ver = reloads
          /\ lc.content_before.ver < reloads

(* ---------------------------------------------------------------------- *)
(* C24  No accepted message is lost: every Body whose try_send succeeded  *)
(* is eventually dequeued by a worker and handed to a fan-out task. A     *)
(* Body that waits in a channel can only be dequeued while that channel's *)
(* worker loop runs: an accepted Body not yet handed to a task sits in a  *)
(* channel whose worker is still in its loop.                             *)
(* ---------------------------------------------------------------------- *)
C24_NoAcceptedMessageLost ==
    \A i \in Ids :
        (sub[i].ok /\ task[i].st = "none")
            => /\ worker[sub[i].ch] = "running"
               /\ \E k \in DOMAIN queue[sub[i].ch] :
                      queue[sub[i].ch][k] = Body(i)

(* ---------------------------------------------------------------------- *)
(* C27  Mailbox is set before it is used: in every order in which init,  *)
(* start, stop and attrs are called on a newly constructed plugin, no    *)
(* call of start or of attrs reaches the unreachable branch of           *)
(* raft_mailbox(): neither ever ends in a panic (on a node that has an   *)
(* entry of its own in raft_peer_addrs, where init does not panic).      *)
(* ---------------------------------------------------------------------- *)
C27_MailboxSetBeforeUse ==
    [][( /\ \E i \in DOMAIN raft_peer_addrs : raft_peer_addrs[i].id = Self
         /\ \/ StartEnter
            \/ \E status \in {"started", "not_started", "err"} :
                   PluginAttrs(status) )
          => p_pc' # "panicked"]_vars

(* ---------------------------------------------------------------------- *)
(* C25  Start-up never yields two bootstrap leaders: whatever the         *)
(* interleaving of the nodes' start_raft calls, at most one node of the  *)
(* cluster takes the lead(id) branch.                                    *)
(* ---------------------------------------------------------------------- *)
C25_SingleBootstrapLeader ==
    Cardinality({n \in StartNodes : sr_call[n].op = "lead"}) <= 1

(* ---------------------------------------------------------------------- *)
(* C26  Broadcast with no peers: on a node whose peer map is empty,       *)
(* join_all does not panic, computes no index outside the map, and        *)
(* returns the empty list, so that get returns exactly the local store's  *)
(* matches.                                                               *)
(* ---------------------------------------------------------------------- *)
C26_BroadcastWithNoPeers ==
    Len(grpc_clients) = 0 =>
        /\ g_pc # "panicked"
        /\ max_idx <= Len(grpc_clients)
        /\ JoinAllReturned => replys = <<>>
        /\ (g_pc = "returned" /\ local.ok) =>
               g_result = [ok |-> TRUE, v |-> local.v, set |-> TRUE]

(* ---------------------------------------------------------------------- *)
(* C28  Consistent config per fan-out: the timeout and global http_urls   *)
(* a handle execution read and the rules it read come from one single    *)
(* version of the config, in every interleaving with a config-only       *)
(* load_config.                                                           *)
(* ---------------------------------------------------------------------- *)
C28_ConsistentConfigPerFanOut ==
    \A i \in Ids :
        task[i].st \in {"awaiting", "done", "cancelled"} /\ task[i].v2 # -1
            => task[i].v1 = task[i].v2

(* ---------------------------------------------------------------------- *)
(* C29  No orphan worker: once load_config has returned, with success or *)
(* with an error, exactly one worker loop remains running, the one that  *)
(* reads the channel the plugin's sender points to (a worker with Exit   *)
(* waiting in its channel is on its way out and does not remain); and a  *)
(* worker whose channel has lost all its senders never loops on the      *)
(* receive error.                                                         *)
(* ---------------------------------------------------------------------- *)
\* The workers in their loop with no Exit waiting for them.
RemainingWorkers ==
    {ch \in Chans :
        /\ worker[ch] = "running"
        /\ \A k \in DOMAIN queue[ch] : queue[ch][k] # Exit}

C29_NoOrphanWorker ==
    /\ (lc.pc = "idle" /\ lcResult # "none") => RemainingWorkers = {tx}
    /\ \A ch \in Chans : ~recvErr[ch]

(* ---------------------------------------------------------------------- *)
(* C30  Topic filters apply to dropped messages: for a MessageDropped    *)
(* event, a rule that has a topics filter produces HTTP requests only    *)
(* when the dropped publish's topic matches the filter, as for           *)
(* MessagePublish events.                                                *)
(* ---------------------------------------------------------------------- *)
C30_TopicFiltersApplyToDropped ==
    (h_typ \in {"message_dropped", "message_publish"} /\ h_pc # "start") =>
        \A k \in DOMAIN h_requests :
            LET r == h_rules.rules[h_requests[k].rule]
            IN  r.topics.some => IsMatches(r.topics, h_publish)

(* ---------------------------------------------------------------------- *)
(* C31  Local store failure in a retained read: when the local store's   *)
(* get returns an error, ClusterRetainer::get returns that error: no     *)
(* broadcaster is built, no GetRetains message is sent to any peer, and  *)
(* nothing of a result is returned with the error.                       *)
(* ---------------------------------------------------------------------- *)
C31_LocalStoreFailure ==
    ~local.ok =>
        /\ g_pc \in {"start", "returned"}
        /\ ~msg_taken
        /\ senders = <<>>
        /\ replys = <<>>
        /\ retains = <<>>
        /\ \A n \in Nodes : sendCount[n] = 0
        /\ g_pc = "returned" =>
               g_result = [ok |-> FALSE, v |-> <<>>, set |-> TRUE]

\* get returned the local store's error on a node with at least two peers,
\* one of which would have answered with retained entries.
C31_Witness ==
    /\ ~local.ok
    /\ g_pc = "returned"
    /\ g_result.set /\ ~g_result.ok
    /\ Len(grpc_clients) >= 2
    /\ \E i \in DOMAIN grpc_clients :
           peer_reply[grpc_clients[i]].kind = "GetRetains"

====
